---------------------------- MODULE Spec2Model ----------------------------
(***************************************************************************)
(* Medication-name resolution pipeline of MedGenGame: the formulation      *)
(* classifier, the DailyMed search wrapper, the strict and relaxed         *)
(* candidate matchers and the resolution loop of DailyMedService, and the  *)
(* corrected-search-term retry of the /api/generate-modules route.         *)
(*                                                                         *)
(* Strings are sequences of one-character strings, so that substring       *)
(* tests, case folding and the regular expressions of the source are       *)
(* computed and not assumed.                                               *)
(***************************************************************************)
EXTENDS Integers, Sequences, FiniteSets, TLC

VARIABLES
  fnOp,      \* pure-function runs: which function is applied
  fnArg,     \* its argument
  fnRes,     \* None until applied, then Some(result)
  medications,        \* searchMultipleMedications: the batch of mentions
  collab,             \* the behaviour of the DailyMed endpoint in this run
  pc,                 \* position of the resolution flow
  medIdx,             \* index of the mention under the for..of loop
  searchTerms,        \* generateSearchTerms(medication) of the current mention
  termIdx,            \* index of the strict / relaxed term being tried
  bestResult,         \* None or Some(candidate)
  bestSearchTerm,
  allRejectedReasons,
  searchErrors,
  results,            \* DailyMedDetails[] being built
  searchLog,          \* the audit log being built
  pending,            \* queries sent to DailyMed and not yet answered
  delayed,            \* a 300 ms pause has elapsed since the last query was sent
  calls,              \* history: every query sent, [mention, term]
  route               \* state of the /api/generate-modules handler after the search

None == <<>>
Some(x) == <<x>>
IsSome(o) == Len(o) = 1
Get(o) == o[1]

Min(a, b) == IF a < b THEN a ELSE b
Max(a, b) == IF a > b THEN a ELSE b

-----------------------------------------------------------------------------
(* Characters and strings *)

UpperLetters == <<"A","B","C","D","E","F","G","H","I","J","K","L","M","N","O","P","Q","R","S","T","U","V","W","X","Y","Z">>
LowerLetters == <<"a","b","c","d","e","f","g","h","i","j","k","l","m","n","o","p","q","r","s","t","u","v","w","x","y","z">>
Digits == <<"0","1","2","3","4","5","6","7","8","9">>

Range(s) == {s[i] : i \in 1..Len(s)}

\* \w of a JavaScript regular expression
WordChars == Range(UpperLetters) \cup Range(LowerLetters) \cup Range(Digits) \cup {"_"}

LowerOf == [c \in Range(UpperLetters) |->
              LowerLetters[CHOOSE i \in 1..26 : UpperLetters[i] = c]]

ToLowerChar(c) == IF c \in DOMAIN LowerOf THEN LowerOf[c] ELSE c

\* the sequence with domain 1..n of a function given by a rule
AsSeq(f, n) == SubSeq(f, 1, n)

\* String.prototype.toLowerCase
toLowerCase(s) == AsSeq([i \in 1..Len(s) |-> ToLowerChar(s[i])], Len(s))

\* String.prototype.substring(from, to) with 0-based offsets, from <= to
substring(s, from, to) == SubSeq(s, from + 1, to)

\* sub occurs in s at offset i
OccursAt(s, sub, i) == \A k \in 1..Len(sub) : s[i + k] = sub[k]

\* String.prototype.includes
includes(s, sub) == \E i \in 0..(Len(s) - Len(sub)) : OccursAt(s, sub, i)

\* String.prototype.indexOf, -1 when absent
indexOf(s, sub) ==
  IF includes(s, sub)
  THEN CHOOSE i \in 0..(Len(s) - Len(sub)) :
         /\ OccursAt(s, sub, i)
         /\ \A j \in 0..(i - 1) : ~OccursAt(s, sub, j)
  ELSE -1

IsSpace(c) == c \in {" ", "\t", "\n"}

RECURSIVE TrimLeft(_)
TrimLeft(s) == IF s # <<>> /\ IsSpace(s[1]) THEN TrimLeft(Tail(s)) ELSE s

RECURSIVE TrimRight(_)
TrimRight(s) ==
  IF s # <<>> /\ IsSpace(s[Len(s)]) THEN TrimRight(SubSeq(s, 1, Len(s) - 1)) ELSE s

\* String.prototype.trim
trim(s) == TrimRight(TrimLeft(s))

\* String.prototype.split(sep) for a non-empty separator
RECURSIVE split(_, _)
split(s, sep) ==
  LET i == indexOf(s, sep) IN
  IF i < 0 THEN <<s>>
  ELSE <<SubSeq(s, 1, i)>> \o split(SubSeq(s, i + Len(sep) + 1, Len(s)), sep)

\* [...new Set(list)]: duplicates removed, first occurrence kept
Unique(list) ==
  LET first == { i \in 1..Len(list) : \A j \in 1..(i - 1) : list[j] # list[i] } IN
  AsSeq([k \in 1..Cardinality(first) |->
           list[CHOOSE i \in first : Cardinality({ j \in first : j <= i }) = k]],
        Cardinality(first))

\* Array.prototype.slice(0, n)
Slice(list, n) == SubSeq(list, 1, Min(n, Len(list)))

-----------------------------------------------------------------------------
(* Regular expressions of the form /\b(alt1|alt2|...)\b/i.  An alternative  *)
(* is a sequence of lower-case characters and of the tokens ANY (the        *)
(* pattern ".") and OPT (the pattern ".?").  "." matches every character    *)
(* but a line terminator.                                                   *)

ANY == "ANY"
OPT == "OPT"

DotMatches(c) == c # "\n"

\* the offsets at which a match of pat[k..] that starts at offset i can end
RECURSIVE MatchFrom(_, _, _, _)
MatchFrom(s, i, pat, k) ==
  IF k > Len(pat) THEN {i}
  ELSE IF pat[k] = OPT
       THEN MatchFrom(s, i, pat, k + 1) \cup
            (IF i < Len(s) /\ DotMatches(s[i + 1])
             THEN MatchFrom(s, i + 1, pat, k + 1) ELSE {})
  ELSE IF i < Len(s) /\ \/ (pat[k] = ANY /\ DotMatches(s[i + 1]))
                        \/ ToLowerChar(s[i + 1]) = pat[k]
       THEN MatchFrom(s, i + 1, pat, k + 1)
       ELSE {}

IsWordAt(s, i) == i >= 1 /\ i <= Len(s) /\ s[i] \in WordChars

\* \b at offset i: between s[i] and s[i+1]
WordBoundary(s, i) == IsWordAt(s, i) # IsWordAt(s, i + 1)

\* RegExp.prototype.test for /\b(alts)\b/i
RegexTest(alts, s) ==
  \E i \in 0..Len(s) :
    /\ WordBoundary(s, i)
    /\ \E p \in alts : \E j \in MatchFrom(s, i, p, 1) : WordBoundary(s, j)

-----------------------------------------------------------------------------
(* Formulation classifier, LLM path (OpenAIService) *)

\* /\b(extended.?release|extended.?release|er|xl|xr|sustained.?release|sr|la|long.?acting)\b/i
erKeywords ==
  { <<"e","x","t","e","n","d","e","d">> \o <<OPT>> \o <<"r","e","l","e","a","s","e">>,
    <<"e","r">>, <<"x","l">>, <<"x","r">>,
    <<"s","u","s","t","a","i","n","e","d">> \o <<OPT>> \o <<"r","e","l","e","a","s","e">>,
    <<"s","r">>, <<"l","a">>,
    <<"l","o","n","g">> \o <<OPT>> \o <<"a","c","t","i","n","g">> }

\* String(undefined), what RegExp.prototype.test sees for a missing argument
S_undefined == <<"u","n","d","e","f","i","n","e","d">>

\* x || '' for an optional string field of the LLM's JSON
OrEmpty(o) == IF IsSome(o) THEN Get(o) ELSE <<>>

isExplicitlyER(context) ==
  RegexTest(erKeywords, IF IsSome(context) THEN Get(context) ELSE S_undefined)

\* the body of medications.map(...) for one element of the LLM's list
ProcessExtracted(med) ==
  [ name |-> OrEmpty(med.name),
    nameIsString |-> med.nameIsString,
    dosage |-> OrEmpty(med.dosage),
    formulation |-> IF med.formulation = "ER" /\ isExplicitlyER(med.fullContext)
                    THEN "ER" ELSE "IR",
    deliveryMethod |-> OrEmpty(med.deliveryMethod),
    fullContext |-> OrEmpty(med.fullContext) ]

\* llm is None when the completion or JSON.parse throws, else Some(list)
extractMedicationsFromText(llm) ==
  IF IsSome(llm)
  THEN AsSeq([i \in 1..Len(Get(llm)) |-> ProcessExtracted(Get(llm)[i])], Len(Get(llm)))
  ELSE <<>>

-----------------------------------------------------------------------------
(* Formulation classifier, pattern path (DailyMedService.extractMedicationNames) *)

medicationPatterns ==
  << <<"m","e","t","f","o","r","m","i","n">>, <<"i","n","s","u","l","i","n">>, <<"l","i","s","i","n","o","p","r","i","l">>, <<"a","t","o","r","v","a","s","t","a","t","i","n">>, <<"a","m","l","o","d","i","p","i","n","e">>,
     <<"h","y","d","r","o","c","h","l","o","r","o","t","h","i","a","z","i","d","e">>, <<"a","s","p","i","r","i","n">>, <<"w","a","r","f","a","r","i","n">>, <<"g","a","b","a","p","e","n","t","i","n">>,
     <<"s","i","m","v","a","s","t","a","t","i","n">>, <<"l","o","s","a","r","t","a","n">>, <<"o","m","e","p","r","a","z","o","l","e">>, <<"l","e","v","o","t","h","y","r","o","x","i","n","e">>,
     <<"a","c","e","t","a","m","i","n","o","p","h","e","n">>, <<"i","b","u","p","r","o","f","e","n">> >>

\* /\w+pril\b/gi, /\w+statin\b/gi, /\w+zide\b/gi, /\w+pine\b/gi
suffixPatterns == << <<"p","r","i","l">>, <<"s","t","a","t","i","n">>, <<"z","i","d","e">>, <<"p","i","n","e">> >>

\* /\b(er|xr|extended.release|extended-release|xl|la|sr|sustained.release|sustained-release)\b/i
patternErIndicators ==
  { <<"e","r">>, <<"x","r">>,
    <<"e","x","t","e","n","d","e","d">> \o <<ANY>> \o <<"r","e","l","e","a","s","e">>, <<"e","x","t","e","n","d","e","d","-","r","e","l","e","a","s","e">>,
    <<"x","l">>, <<"l","a">>, <<"s","r">>,
    <<"s","u","s","t","a","i","n","e","d">> \o <<ANY>> \o <<"r","e","l","e","a","s","e">>, <<"s","u","s","t","a","i","n","e","d","-","r","e","l","e","a","s","e">> }

\* characters of context kept on each side of the medication name
ContextWindow == 50

\* the maximal runs of word characters of s, in text order
RECURSIVE WordRuns(_, _, _)
WordRuns(s, i, cur) ==
  LET flush == IF cur = <<>> THEN <<>> ELSE <<cur>> IN
  IF i > Len(s) THEN flush
  ELSE IF s[i] \in WordChars THEN WordRuns(s, i + 1, Append(cur, s[i]))
  ELSE flush \o WordRuns(s, i + 1, <<>>)

EndsWith(s, suf) ==
  Len(s) >= Len(suf) /\ SubSeq(s, Len(s) - Len(suf) + 1, Len(s)) = suf

\* patientInfo.match(/name/gi), lower-cased: the name once per occurrence
FixedMatches(patientInfo, name) ==
  IF includes(toLowerCase(patientInfo), name) THEN <<name>> ELSE <<>>

\* patientInfo.match(/\w+suffix\b/gi), lower-cased: \w+ is greedy and \b can
\* only follow the last character of a run, so a match is a whole run
SuffixMatches(patientInfo, suf) ==
  LET runs == WordRuns(toLowerCase(patientInfo), 1, <<>>) IN
  SelectSeq(runs, LAMBDA r : Len(r) > Len(suf) /\ EndsWith(r, suf))

RECURSIVE Flatten(_)
Flatten(ss) == IF ss = <<>> THEN <<>> ELSE Head(ss) \o Flatten(Tail(ss))

\* fullContext of one matched name
PatternContext(patientInfo, medName) ==
  LET low == toLowerCase(patientInfo)
      medPosition == indexOf(low, medName)
      contextBefore == substring(low, Max(0, medPosition - ContextWindow), medPosition)
      contextAfter == substring(low, medPosition,
                        Min(Len(patientInfo), medPosition + Len(medName) + ContextWindow))
  IN contextBefore \o medName \o contextAfter

PatternFormulation(patientInfo, medName) ==
  IF RegexTest(patternErIndicators, PatternContext(patientInfo, medName))
  THEN "ER" ELSE "IR"

\* the entries of foundMedications in insertion order; a later set() of the
\* same name stores the value computed from the same first occurrence
extractMedicationNames(patientInfo) ==
  LET fixed == Flatten(AsSeq([k \in 1..Len(medicationPatterns) |->
                          FixedMatches(patientInfo, medicationPatterns[k])],
                        Len(medicationPatterns)))
      suffixed == Flatten(AsSeq([k \in 1..Len(suffixPatterns) |->
                          SuffixMatches(patientInfo, suffixPatterns[k])],
                        Len(suffixPatterns)))
      names == Unique(fixed \o suffixed)
  IN AsSeq([i \in 1..Len(names) |->
        [name |-> names[i], formulation |-> PatternFormulation(patientInfo, names[i])]],
       Len(names))

-----------------------------------------------------------------------------
(* DailyMedService.searchMedications *)

veterinaryKeywords ==
  << <<"z","y","v","e","t">>, <<"a","n","i","m","a","l"," ","h","e","a","l","t","h">>, <<"v","e","t","e","r","i","n","a","r","y">>, <<"p","e","t">>, <<"c","a","n","i","n","e">>, <<"f","e","l","i","n","e">>,
     <<"b","o","v","i","n","e">>, <<"e","q","u","i","n","e">>, <<"p","o","r","c","i","n","e">>, <<"a","v","i","a","n">>, <<"a","n","i","m","a","l">>, <<"v","e","t">> >>

humanPharmaKeywords ==
  << <<"p","f","i","z","e","r">>, <<"m","e","r","c","k">>, <<"n","o","v","a","r","t","i","s">>, <<"r","o","c","h","e">>, <<"j","o","h","n","s","o","n">>, <<"a","b","b","v","i","e">>,
     <<"b","r","i","s","t","o","l">>, <<"a","m","g","e","n">>, <<"g","i","l","e","a","d">>, <<"b","i","o","g","e","n">>, <<"c","e","l","g","e","n","e">>, <<"m","y","l","a","n">>,
     <<"t","e","v","a">>, <<"s","a","n","d","o","z">>, <<"a","p","o","t","e","x">>, <<"p","a","r">>, <<"w","a","t","s","o","n">>, <<"a","c","t","a","v","i","s">>,
     <<"r","e","m","e","d","y","r","e","p","a","c","k">>, <<"c","a","r","d","i","n","a","l">>, <<"m","c","k","e","s","s","o","n">> >>

\* variant of IsVeterinary that looks at the labeler only
IsVeterinaryLabelerOnly(title, labeler) ==
  \E k \in 1..Len(veterinaryKeywords) : includes(labeler, veterinaryKeywords[k])

\* variant of IsVeterinary that looks at the title only
IsVeterinaryTitleOnly(title, labeler) ==
  \E k \in 1..Len(veterinaryKeywords) : includes(title, veterinaryKeywords[k])

\* veterinaryKeywords.some(keyword => title.includes(keyword) || labeler.includes(keyword))
IsVeterinary(title, labeler) ==
  \E k \in 1..Len(veterinaryKeywords) :
    \/ includes(title, veterinaryKeywords[k])
    \/ includes(labeler, veterinaryKeywords[k])

IsHumanPharma(labeler) ==
  \E k \in 1..Len(humanPharmaKeywords) : includes(labeler, humanPharmaKeywords[k])

\* number of records of a search that are returned
MaxSearchResults == 5

\* data.data.filter(...): veterinary products removed
HumanMedications(data) ==
  SelectSeq(data, LAMBDA item :
    ~IsVeterinary(toLowerCase(item.title), toLowerCase(item.labeler)))

\* the sort comparator puts human-pharma labelers first; Array.prototype.sort
\* is stable, so each group keeps the order of the payload
SortByLabeler(items) ==
  SelectSeq(items, LAMBDA item : IsHumanPharma(toLowerCase(item.labeler)))
  \o SelectSeq(items, LAMBDA item : ~IsHumanPharma(toLowerCase(item.labeler)))

ToSearchResult(item) ==
  [setId |-> item.setid, title |-> item.title, labeler |-> item.labeler]

SearchError == [error |-> TRUE, list |-> <<>>]
SearchOk(list) == [error |-> FALSE, list |-> list]

\* JSON values, as far as searchMedications distinguishes them
Undefined == [type |-> "undefined"]
Null == [type |-> "null"]
Object == [type |-> "object"]
Array(items) == [type |-> "array", items |-> items]

\* !v for the JSON values above: undefined and null are falsy, objects and
\* arrays (the empty array too) are truthy
Falsy(v) == v.type \in {"undefined", "null"}

\* Array.isArray(v)
IsArray(v) == v.type = "array"

Json(data) == [kind |-> "json", data |-> data]
HttpError == [kind |-> "http_error", status |-> 503]

\* what fetch(searchUrl) and response.json() give: fetch rejects
\* ("network_error"), response.ok is false ("http_error", with the status),
\* response.json() rejects ("invalid_json"), or the body parses ("json") to
\* an object whose data property is response.data
searchMedications(response) ==
  IF response.kind \in {"network_error", "http_error", "invalid_json"}
  THEN SearchError
  ELSE IF Falsy(response.data) \/ ~IsArray(response.data) THEN SearchOk(<<>>)
  ELSE LET sorted == SortByLabeler(HumanMedications(response.data.items))
           top == Slice(sorted, MaxSearchResults)
       IN SearchOk(AsSeq([i \in 1..Len(top) |-> ToSearchResult(top[i])], Len(top)))
-----------------------------------------------------------------------------
(* Combination-name expansion and search-term generation *)

Sp == <<" ">>

TwoPartPermutations(a, b) ==
  << a \o <<"/">> \o b, b \o <<"/">> \o a, a \o Sp \o b, b \o Sp \o a >>

TrimAll(parts) == AsSeq([i \in 1..Len(parts) |-> trim(parts[i])], Len(parts))

generateCombinationPermutations(drugName) ==
  LET slashParts == TrimAll(split(drugName, <<"/">>))
      slashPerms ==
        IF includes(drugName, <<"/">>) /\ Len(slashParts) = 2
        THEN TwoPartPermutations(slashParts[1], slashParts[2])
             \o << slashParts[1] \o <<"-">> \o slashParts[2],
                   slashParts[2] \o <<"-">> \o slashParts[1],
                   slashParts[1], slashParts[2] >>
        ELSE <<>>
      separator == IF includes(drugName, <<" ","a","n","d"," ">>) THEN <<" ","a","n","d"," ">> ELSE <<" ","&"," ">>
      andParts == TrimAll(split(drugName, separator))
      andPerms ==
        IF (includes(drugName, <<" ","a","n","d"," ">>) \/ includes(drugName, <<" ","&"," ">>))
           /\ Len(andParts) = 2
        THEN TwoPartPermutations(andParts[1], andParts[2])
             \o << andParts[1], andParts[2] >>
        ELSE <<>>
  IN Unique(<<drugName>> \o slashPerms \o andPerms)

\* variant of TermsFor that pushes the bare name first
TermsForBareFirst(drugName, delivery, formulation, fullContext) ==
  << drugName >>
  \o (IF formulation = "ER"
      THEN << drugName \o <<" ","e","x","t","e","n","d","e","d"," ","r","e","l","e","a","s","e">>, drugName \o <<" ","e","r">>,
              drugName \o <<" ","x","l">>, drugName \o <<" ","x","r">>,
              drugName \o <<" ","s","u","s","t","a","i","n","e","d"," ","r","e","l","e","a","s","e">>, drugName \o <<" ","s","r">> >>
      ELSE << drugName \o <<" ","i","m","m","e","d","i","a","t","e"," ","r","e","l","e","a","s","e">>, drugName \o <<" ","i","r">> >>)
  \o (IF delivery # <<>> THEN << drugName \o Sp \o delivery >> ELSE <<>>)

\* the terms pushed for one name variant
TermsFor(drugName, delivery, formulation, fullContext) ==
  (IF delivery # <<>>
   THEN (IF formulation = "ER"
         THEN << drugName \o Sp \o delivery \o <<" ","e","x","t","e","n","d","e","d"," ","r","e","l","e","a","s","e">>,
                 drugName \o Sp \o delivery \o <<" ","e","r">>,
                 drugName \o Sp \o delivery \o <<" ","x","l">>,
                 drugName \o Sp \o delivery \o <<" ","x","r">> >>
         ELSE << drugName \o Sp \o delivery \o <<" ","i","m","m","e","d","i","a","t","e"," ","r","e","l","e","a","s","e">>,
                 drugName \o Sp \o delivery \o <<" ","i","r">> >>)
        \o << drugName \o Sp \o delivery >>
        \o (IF delivery = <<"i","n","h","a","l","e","r">>
            THEN << drugName \o <<" ","i","n","h","a","l","a","t","i","o","n">>,
                    drugName \o <<" ","m","e","t","e","r","e","d"," ","d","o","s","e"," ","i","n","h","a","l","e","r">>,
                    drugName \o <<" ","M","D","I">> >>
            ELSE <<>>)
        \o (IF delivery = <<"h","a","n","d","i","h","a","l","e","r">>
            THEN << drugName \o <<" ","d","r","y"," ","p","o","w","d","e","r"," ","i","n","h","a","l","e","r">>, drugName \o <<" ","D","P","I">> >>
            ELSE <<>>)
   ELSE <<>>)
  \o (IF formulation = "ER"
      THEN << drugName \o <<" ","e","x","t","e","n","d","e","d"," ","r","e","l","e","a","s","e">>, drugName \o <<" ","e","r">>,
              drugName \o <<" ","x","l">>, drugName \o <<" ","x","r">>,
              drugName \o <<" ","s","u","s","t","a","i","n","e","d"," ","r","e","l","e","a","s","e">>, drugName \o <<" ","s","r">> >>
      ELSE << drugName \o <<" ","i","m","m","e","d","i","a","t","e"," ","r","e","l","e","a","s","e">>, drugName \o <<" ","i","r">> >>)
  \o (IF includes(toLowerCase(fullContext), <<"r","e","s","p","i","m","a","t">>)
      THEN << drugName \o <<" ","r","e","s","p","i","m","a","t">> >> ELSE <<>>)
  \o << drugName >>

generateSearchTerms(medication) ==
  LET medName == toLowerCase(medication.name)
      delivery == toLowerCase(medication.deliveryMethod)
      perms == generateCombinationPermutations(medName)
  IN Unique(Flatten(AsSeq([k \in 1..Len(perms) |->
       TermsFor(perms[k], delivery, medication.formulation, medication.fullContext)],
       Len(perms))))

-----------------------------------------------------------------------------
(* Candidate matcher *)

\* /\b(extended.release|extended-release|er|xl|xr|sustained.release|sustained-release|sr|la)\b/i
erIndicators ==
  { <<"e","x","t","e","n","d","e","d">> \o <<ANY>> \o <<"r","e","l","e","a","s","e">>, <<"e","x","t","e","n","d","e","d","-","r","e","l","e","a","s","e">>,
    <<"e","r">>, <<"x","l">>, <<"x","r">>,
    <<"s","u","s","t","a","i","n","e","d">> \o <<ANY>> \o <<"r","e","l","e","a","s","e">>, <<"s","u","s","t","a","i","n","e","d","-","r","e","l","e","a","s","e">>,
    <<"s","r">>, <<"l","a">> }

\* /\b(immediate.release|immediate-release|ir)\b/i
irIndicators ==
  { <<"i","m","m","e","d","i","a","t","e">> \o <<ANY>> \o <<"r","e","l","e","a","s","e">>, <<"i","m","m","e","d","i","a","t","e","-","r","e","l","e","a","s","e">>, <<"i","r">> }

Reject(reason) == [isMatch |-> FALSE, reason |-> reason]

\* variant of StrictRules that tests the formulation before the other rules
StrictRulesFormulationFirst(title, labeler, medName, delivery, formulation, fullContext) ==
  IF formulation = "ER" /\ RegexTest(irIndicators, title)
  THEN Reject("explicitly states immediate release but patient needs ER")
  ELSE IF formulation = "IR" /\ RegexTest(erIndicators, title)
       THEN Reject("extended release but patient needs IR")
  ELSE IF ~\E k \in 1..Len(generateCombinationPermutations(medName)) :
             includes(title, toLowerCase(generateCombinationPermutations(medName)[k]))
       THEN Reject("doesn't contain any component of the name")
  ELSE IF IsVeterinary(title, labeler) THEN Reject("veterinary/animal health product")
  ELSE IF /\ delivery \in { <<"i","n","h","a","l","e","r">>, <<"h","a","n","d","i","h","a","l","e","r">> }
          /\ includes(title, <<"s","o","l","u","t","i","o","n">>) /\ ~includes(title, <<"i","n","h","a","l","a","t","i","o","n">>)
       THEN Reject("solution not appropriate for inhaler delivery")
  ELSE IF /\ delivery \in { <<"i","n","h","a","l","e","r">>, <<"h","a","n","d","i","h","a","l","e","r">> }
          /\ (includes(title, <<"t","a","b","l","e","t">>) \/ includes(title, <<"c","a","p","s","u","l","e">>))
       THEN Reject("tablet/capsule not appropriate for inhaler delivery")
  ELSE IF /\ medName = <<"t","i","o","t","r","o","p","i","u","m">>
          /\ ~includes(toLowerCase(fullContext), <<"o","l","o","d","a","t","e","r","o","l">>)
          /\ includes(title, <<"o","l","o","d","a","t","e","r","o","l">>)
       THEN Reject("contains olodaterol but patient info doesn't mention it")
  ELSE [isMatch |-> TRUE, reason |-> "appropriate match"]

\* the rules of isAppropriateMatchWithReasons on the lower-cased strings
StrictRules(title, labeler, medName, delivery, formulation, fullContext) ==
  IF ~\E k \in 1..Len(generateCombinationPermutations(medName)) :
        includes(title, toLowerCase(generateCombinationPermutations(medName)[k]))
  THEN Reject("doesn't contain any component of the name")
  ELSE IF IsVeterinary(title, labeler) THEN Reject("veterinary/animal health product")
  ELSE IF /\ delivery \in { <<"i","n","h","a","l","e","r">>, <<"h","a","n","d","i","h","a","l","e","r">> }
          /\ includes(title, <<"s","o","l","u","t","i","o","n">>) /\ ~includes(title, <<"i","n","h","a","l","a","t","i","o","n">>)
       THEN Reject("solution not appropriate for inhaler delivery")
  ELSE IF /\ delivery \in { <<"i","n","h","a","l","e","r">>, <<"h","a","n","d","i","h","a","l","e","r">> }
          /\ (includes(title, <<"t","a","b","l","e","t">>) \/ includes(title, <<"c","a","p","s","u","l","e">>))
       THEN Reject("tablet/capsule not appropriate for inhaler delivery")
  ELSE IF /\ medName = <<"t","i","o","t","r","o","p","i","u","m">>
          /\ ~includes(toLowerCase(fullContext), <<"o","l","o","d","a","t","e","r","o","l">>)
          /\ includes(title, <<"o","l","o","d","a","t","e","r","o","l">>)
       THEN Reject("contains olodaterol but patient info doesn't mention it")
  ELSE IF formulation = "ER" /\ RegexTest(irIndicators, title)
       THEN Reject("explicitly states immediate release but patient needs ER")
  ELSE IF formulation = "IR" /\ RegexTest(erIndicators, title)
       THEN Reject("extended release but patient needs IR")
  ELSE [isMatch |-> TRUE, reason |-> "appropriate match"]

isAppropriateMatchWithReasons(medication, result) ==
  StrictRules(toLowerCase(result.title), toLowerCase(result.labeler),
              toLowerCase(medication.name), toLowerCase(medication.deliveryMethod),
              medication.formulation, medication.fullContext)

\* variant of RelaxedRules without the formulation requirements
RelaxedRulesNameOnly(title, labeler, name, formulation) ==
  /\ ~IsVeterinary(title, labeler)
  /\ (includes(title, name) \/ includes(title, split(name, <<"/">>)[1]))

\* the checks of tryRelaxedSearch on one candidate, on the lower-cased strings
RelaxedRules(title, labeler, name, formulation) ==
  /\ ~IsVeterinary(title, labeler)
  /\ (includes(title, name) \/ includes(title, split(name, <<"/">>)[1]))
  /\ ~(formulation = "IR" /\ RegexTest(erIndicators, title))
  /\ ~(formulation = "ER" /\ RegexTest(irIndicators, title))

RelaxedAccepts(medication, result) ==
  RelaxedRules(toLowerCase(result.title), toLowerCase(result.labeler),
               toLowerCase(medication.name), medication.formulation)

\* variant of relaxedSearchTerms that starts with the hyphen segment
relaxedSearchTermsHyphenFirst(medication) ==
  LET name == toLowerCase(medication.name) IN
  Unique(<< split(name, <<"-">>)[1], split(name, <<"/">>)[1], name >>)

\* the de-duplicated fallback terms of tryRelaxedSearch
relaxedSearchTerms(medication) ==
  LET name == toLowerCase(medication.name) IN
  Unique(<< name, split(name, <<"/">>)[1], split(name, <<"-">>)[1] >>)

-----------------------------------------------------------------------------
(* Dosage availability (OpenAIService.validateDosageAvailability) *)

IsDigitAt(s, i) == i >= 1 /\ i <= Len(s) /\ s[i] \in Range(Digits)

\* the last position of the run of digits that starts at position i
DigitRunEnd(s, i) ==
  CHOOSE e \in i..Len(s) :
    /\ \A j \in i..e : IsDigitAt(s, j)
    /\ ~IsDigitAt(s, e + 1)

\* the last position of the match of \d+(?:\.\d+)? that starts at position i
NumberEnd(s, i) ==
  IF IsDigitAt(s, DigitRunEnd(s, i) + 2) /\ s[DigitRunEnd(s, i) + 1] = "."
  THEN DigitRunEnd(s, DigitRunEnd(s, i) + 2)
  ELSE DigitRunEnd(s, i)

\* dosage.match(/\d+(?:\.\d+)?/g), from position i on
RECURSIVE NumberMatches(_, _)
NumberMatches(s, i) ==
  IF i > Len(s) THEN <<>>
  ELSE IF IsDigitAt(s, i)
       THEN << SubSeq(s, i, NumberEnd(s, i)) >> \o NumberMatches(s, NumberEnd(s, i) + 1)
       ELSE NumberMatches(s, i + 1)

\* a slash and a digit follow position e
SlashAfter(s, e) == e + 2 <= Len(s) /\ s[e + 1] = "/" /\ IsDigitAt(s, e + 2)

\* the last position of the first group of /(\d+(?:\.\d+)?)\/(\d+(?:\.\d+)?)/
\* for a match that starts at position i: the decimals are taken if the slash
\* follows them
FirstGroupEnd(s, i) ==
  IF SlashAfter(s, NumberEnd(s, i)) THEN NumberEnd(s, i) ELSE DigitRunEnd(s, i)

\* dosage.match(/(\d+(?:\.\d+)?)\/(\d+(?:\.\d+)?)/): the two groups of the
\* leftmost match, None when there is no match
CombinationMatch(s) ==
  LET starts == { i \in 1..Len(s) : IsDigitAt(s, i) /\ SlashAfter(s, FirstGroupEnd(s, i)) }
      first == CHOOSE i \in starts : \A j \in starts : i <= j
  IN IF starts = {} THEN None
     ELSE Some(<< SubSeq(s, first, FirstGroupEnd(s, first)),
                  SubSeq(s, FirstGroupEnd(s, first) + 2,
                         NumberEnd(s, FirstGroupEnd(s, first) + 2)) >>)

extractDosageNumbers(dosage) ==
  LET matches == NumberMatches(dosage, 1)
      combinationMatch == CombinationMatch(dosage)
  IN Unique(
       Flatten(AsSeq([k \in 1..Len(matches) |->
                        << matches[k] \o <<"m","g">>, matches[k] \o <<" ","m","g">>, matches[k] >>],
                     Len(matches)))
       \o (IF IsSome(combinationMatch)
           THEN << Get(combinationMatch)[1] \o <<"/">> \o Get(combinationMatch)[2],
                   Get(combinationMatch)[1] \o <<" ","/"," ">> \o Get(combinationMatch)[2],
                   Get(combinationMatch)[1] \o <<"-">> \o Get(combinationMatch)[2] >>
           ELSE <<>>))

\* hasMatchingDosage of one search result
HasMatchingDosage(dosagePattern, title) ==
  \E k \in 1..Len(dosagePattern) : includes(title, dosagePattern[k])

\* availableFormulations after the loop over the search results
AvailableFormulations(dosagePattern, searchResults) ==
  [ ER |-> \E k \in 1..Len(searchResults) :
             /\ HasMatchingDosage(dosagePattern, toLowerCase(searchResults[k].title))
             /\ RegexTest(erIndicators, toLowerCase(searchResults[k].title)),
    IR |-> \E k \in 1..Len(searchResults) :
             /\ HasMatchingDosage(dosagePattern, toLowerCase(searchResults[k].title))
             /\ ~RegexTest(erIndicators, toLowerCase(searchResults[k].title)) ]

\* the chain of returns at the end of validateDosageAvailability
DosageVerdict(formulation, available) ==
  IF formulation = "ER" /\ available.ER
  THEN [formulation |-> "ER", reasoning |-> "ER explicitly requested and available"]
  ELSE IF formulation = "ER" /\ ~available.ER /\ available.IR
  THEN [formulation |-> "IR", reasoning |-> "ER requested but not available, defaulting to IR"]
  ELSE IF available.IR
  THEN [formulation |-> "IR", reasoning |-> "IR is default and available"]
  ELSE IF available.ER
  THEN [formulation |-> "ER", reasoning |-> "only ER formulation available"]
  ELSE [formulation |-> "IR", reasoning |-> "no specific dosage found, defaulting to IR"]

validateDosageAvailability(medication, searchResults) ==
  DosageVerdict(medication.formulation,
                AvailableFormulations(extractDosageNumbers(medication.dosage), searchResults))
-----------------------------------------------------------------------------
(* DailyMedService.searchMultipleMedications and tryRelaxedSearch *)

\* candidates of one strict search that are checked
StrictTop == 3
\* candidates of one relaxed search that are checked
RelaxedTop == 10
\* rejection reasons kept in the SEARCH_FAILED entry
FailedReasonsKept == 5
\* rejection reasons quoted in the error text of the SEARCH_FAILED entry
FailedReasonsQuoted == 3

S_SEARCH_FAILED == <<"S","E","A","R","C","H","_","F","A","I","L","E","D">>
S_PROCESSING_ERROR == <<"P","R","O","C","E","S","S","I","N","G","_","E","R","R","O","R">>
S_relaxedMark == <<" ","(","r","e","l","a","x","e","d",")">>
S_unspecified == <<"u","n","s","p","e","c","i","f","i","e","d">>

NoError == [kind |-> "", detail |-> <<>>]
ErrorText(kind, detail) == [kind |-> kind, detail |-> detail]

\* a searchLog entry; mention is the index of the mention in the batch
\* (history, not a field of the program's entry)
LogEntry(i, medication, searchTerm, found, resultTitle, error, rejectedReasons) ==
  [ mention |-> i,
    medication |-> medication.name,
    searchTerm |-> searchTerm,
    found |-> found,
    resultTitle |-> resultTitle,
    error |-> error,
    rejectedReasons |-> rejectedReasons,
    requestedFormulation |-> medication.formulation,
    deliveryMethod |-> IF medication.deliveryMethod # <<>>
                       THEN medication.deliveryMethod ELSE S_unspecified ]

\* the verdicts of the strict matcher on the checked candidates, in rank order
StrictVerdicts(medication, checked) ==
  AsSeq([k \in 1..Len(checked) |-> isAppropriateMatchWithReasons(medication, checked[k])],
        Len(checked))

\* variant of FirstTrue that takes the last TRUE
LastTrue(flags) ==
  IF \E k \in 1..Len(flags) : flags[k]
  THEN CHOOSE k \in 1..Len(flags) : flags[k] /\ \A j \in (k + 1)..Len(flags) : ~flags[j]
  ELSE 0

\* index of the first TRUE of a sequence of booleans, 0 when there is none:
\* the candidate at which the for loop over the candidates stops
FirstTrue(flags) ==
  IF \E k \in 1..Len(flags) : flags[k]
  THEN CHOOSE k \in 1..Len(flags) : flags[k] /\ \A j \in 1..(k - 1) : ~flags[j]
  ELSE 0

\* the verdicts of the relaxed test on the checked candidates, in rank order
RelaxedVerdicts(medication, checked) ==
  AsSeq([k \in 1..Len(checked) |-> RelaxedAccepts(medication, checked[k])], Len(checked))

\* the DailyMedDetails built from the accepted candidate; formulation is the
\* formulation the static texts (indications, dosage, ...) are written for;
\* mention is the index of the mention in the batch (history, not a field of
\* the program's object)
Details(i, medication, result) ==
  [ mention |-> i,
    setId |-> result.setId, title |-> result.title, labeler |-> result.labeler,
    formulation |-> medication.formulation ]

\* variant of KeptReasons that keeps every reason
KeptReasonsUnlimited(reasons) == reasons

\* allRejectedReasons.slice(0, 5) of the SEARCH_FAILED entry
KeptReasons(reasons) == Slice(reasons, FailedReasonsKept)

\* variant of PushResult that puts the newest entry first
PushResultFirst(list, details) == <<details>> \o list

\* results.push(details)
PushResult(list, details) == Append(list, details)

\* searchLog.push(entry)
PushLog(log, entry) == Append(log, entry)

\* the replies the DailyMed endpoint can give to the query that is sent as
\* call number n of the run, for mention number i of the batch
Answers(c, i, n) ==
  IF i \in c.downFor THEN {HttpError}
  ELSE IF n <= c.switchAt THEN {c.first}
  ELSE {c.then}

CurrentMedication == medications[medIdx]

searchVars == << medications, collab, pc, medIdx, searchTerms, termIdx, bestResult,
                 bestSearchTerm, allRejectedReasons, searchErrors, results,
                 searchLog, pending, delayed, calls >>
fnVars == << fnOp, fnArg, fnRes >>
vars == << fnVars, searchVars, route >>

\* for (const medication of medications): generateSearchTerms succeeded
BeginMedication ==
  /\ pc = "loop"
  /\ medIdx <= Len(medications)
  /\ CurrentMedication.nameIsString
  /\ \E terms \in {generateSearchTerms(CurrentMedication)} : searchTerms' = terms
  /\ termIdx' = 1
  /\ bestResult' = None
  /\ bestSearchTerm' = <<>>
  /\ allRejectedReasons' = <<>>
  /\ searchErrors' = <<>>
  /\ pc' = "strict"
  /\ UNCHANGED << medications, collab, medIdx, results, searchLog, pending, delayed,
                  calls, fnVars, route >>

\* variant of ProcessingError without the outer catch: the exception leaves
\* the loop and the batch ends with what it has
ProcessingErrorUncaught ==
  /\ pc = "loop"
  /\ medIdx <= Len(medications)
  /\ ~CurrentMedication.nameIsString
  /\ pc' = "done"
  /\ UNCHANGED << medications, collab, medIdx, searchTerms, termIdx, bestResult,
                  bestSearchTerm, allRejectedReasons, searchErrors, results,
                  searchLog, pending, delayed, calls, fnVars, route >>

\* medication.name.toLowerCase() throws in generateSearchTerms: the outer catch
ProcessingError ==
  /\ pc = "loop"
  /\ medIdx <= Len(medications)
  /\ ~CurrentMedication.nameIsString
  /\ searchLog' = PushLog(searchLog,
       LogEntry(medIdx, CurrentMedication, S_PROCESSING_ERROR, FALSE, None,
                ErrorText("Processing failed", <<>>), None))
  /\ medIdx' = medIdx + 1
  /\ UNCHANGED << medications, collab, pc, searchTerms, termIdx, bestResult,
                  bestSearchTerm, allRejectedReasons, searchErrors, results,
                  pending, delayed, calls, fnVars, route >>

\* the query of one awaited this.searchMedications(term) goes out
SendQuery(term) ==
  /\ pending' = Append(pending, [mention |-> medIdx, term |-> term])
  /\ calls' = Append(calls, [mention |-> medIdx, term |-> term])
  /\ delayed' = FALSE

\* await this.searchMedications(searchTerm) of the strict loop: request sent
StrictCall ==
  /\ pc = "strict"
  /\ SendQuery(searchTerms[termIdx])
  /\ pc' = "strictAwait"
  /\ UNCHANGED << medications, collab, medIdx, searchTerms, termIdx, bestResult,
                  bestSearchTerm, allRejectedReasons, searchErrors, results,
                  searchLog, fnVars, route >>

\* the strict search returns or throws; the loop body runs up to the delay
StrictReturn ==
  /\ pc = "strictAwait"
  /\ \E response \in Answers(collab, medIdx, Len(calls)) :
     \E out \in {searchMedications(response)} :
     \E checked \in {Slice(out.list, StrictTop)} :
     \E verdicts \in {StrictVerdicts(CurrentMedication, checked)} :
     \E hit \in {FirstTrue(AsSeq([k \in 1..Len(checked) |-> verdicts[k].isMatch],
                                 Len(checked)))} :
       LET searchTerm == searchTerms[termIdx]
           searchResults == out.list
           nRejected == IF hit = 0 THEN Len(checked) ELSE hit - 1
           \* `${result.title}: ${matchResult.reason}` of the candidates before the hit
           rejected == AsSeq([k \in 1..nRejected |->
                                [title |-> checked[k].title, reason |-> verdicts[k].reason]],
                             nRejected)
       IN
       /\ pending' = <<>>
       /\ IF out.error
          THEN /\ searchErrors' = Append(searchErrors, searchTerm)
               /\ searchLog' = PushLog(searchLog,
                    LogEntry(medIdx, CurrentMedication, searchTerm, FALSE, None,
                             ErrorText("Search failed", <<>>), None))
               /\ pc' = "strictDelay"
               /\ UNCHANGED << bestResult, bestSearchTerm, allRejectedReasons >>
          ELSE /\ searchLog' = PushLog(searchLog,
                    LogEntry(medIdx, CurrentMedication, searchTerm,
                             Len(searchResults) > 0,
                             IF Len(searchResults) > 0
                             THEN Some(searchResults[1].title) ELSE None,
                             IF Len(searchResults) > 0 THEN NoError
                             ELSE ErrorText("No results found in DailyMed database", <<>>),
                             Some(rejected)))
               /\ allRejectedReasons' = allRejectedReasons \o rejected
               /\ bestResult' = IF hit > 0 THEN Some(checked[hit]) ELSE bestResult
               /\ bestSearchTerm' = IF hit > 0 THEN searchTerm ELSE bestSearchTerm
               /\ pc' = IF hit > 0 THEN "conclude" ELSE "strictDelay"
               /\ UNCHANGED searchErrors
  /\ UNCHANGED << medications, collab, medIdx, searchTerms, termIdx, results,
                  delayed, calls, fnVars, route >>

\* variant of StrictDelay that gives the mention up after a failed search
StrictDelayGivesUp ==
  /\ pc = "strictDelay"
  /\ delayed' = TRUE
  /\ IF searchErrors # <<>>
     THEN termIdx' = 1 /\ pc' = "conclude"
     ELSE IF termIdx < Len(searchTerms)
          THEN termIdx' = termIdx + 1 /\ pc' = "strict"
          ELSE termIdx' = 1 /\ pc' = "relaxed"
  /\ UNCHANGED << medications, collab, medIdx, searchTerms, bestResult,
                  bestSearchTerm, allRejectedReasons, searchErrors, results,
                  searchLog, pending, calls, fnVars, route >>

\* variant of StrictDelay that tries a term again after its search failed
StrictDelayRetries ==
  /\ pc = "strictDelay"
  /\ delayed' = TRUE
  /\ IF Len(searchErrors) = 1
     THEN termIdx' = termIdx /\ pc' = "strict"
     ELSE IF termIdx < Len(searchTerms)
     THEN termIdx' = termIdx + 1 /\ pc' = "strict"
     ELSE termIdx' = 1 /\ pc' = "relaxed"
  /\ UNCHANGED << medications, collab, medIdx, searchTerms, bestResult,
                  bestSearchTerm, allRejectedReasons, searchErrors, results,
                  searchLog, pending, calls, fnVars, route >>

\* await new Promise(resolve => setTimeout(resolve, 300)) at the end of the
\* strict loop body, then the next term or, the terms exhausted, the relaxed search
StrictDelay ==
  /\ pc = "strictDelay"
  /\ delayed' = TRUE
  /\ IF termIdx < Len(searchTerms)
     THEN termIdx' = termIdx + 1 /\ pc' = "strict"
     ELSE termIdx' = 1 /\ pc' = "relaxed"
  /\ UNCHANGED << medications, collab, medIdx, searchTerms, bestResult,
                  bestSearchTerm, allRejectedReasons, searchErrors, results,
                  searchLog, pending, calls, fnVars, route >>

\* await this.searchMedications(searchTerm) of tryRelaxedSearch: request sent
RelaxedCall ==
  /\ pc = "relaxed"
  /\ SendQuery(relaxedSearchTerms(CurrentMedication)[termIdx])
  /\ pc' = "relaxedAwait"
  /\ UNCHANGED << medications, collab, medIdx, searchTerms, termIdx, bestResult,
                  bestSearchTerm, allRejectedReasons, searchErrors, results,
                  searchLog, fnVars, route >>

\* after a relaxed term without an accepted candidate: the next term, or return null
RelaxedAdvance ==
  IF termIdx < Len(relaxedSearchTerms(CurrentMedication))
  THEN termIdx' = termIdx + 1 /\ pc' = "relaxed"
  ELSE termIdx' = termIdx /\ pc' = "conclude"

\* the relaxed search returns or throws
RelaxedReturn ==
  /\ pc = "relaxedAwait"
  /\ \E response \in Answers(collab, medIdx, Len(calls)) :
     \E out \in {searchMedications(response)} :
     \E checked \in {Slice(out.list, RelaxedTop)} :
     \E hit \in {FirstTrue(RelaxedVerdicts(CurrentMedication, checked))} :
     \E searchTerm \in {relaxedSearchTerms(CurrentMedication)[termIdx]} :
       /\ pending' = <<>>
       /\ IF out.error
          THEN \* catch (error): only console.error, then the next term
               /\ RelaxedAdvance
               /\ UNCHANGED << bestResult, bestSearchTerm, searchLog >>
          ELSE IF hit > 0
          THEN /\ searchLog' = PushLog(searchLog,
                    LogEntry(medIdx, CurrentMedication, searchTerm \o S_relaxedMark,
                             TRUE, Some(checked[hit].title),
                             ErrorText("Found with relaxed criteria", <<>>), None))
               /\ bestResult' = Some(checked[hit])
               /\ bestSearchTerm' = searchTerm \o S_relaxedMark
               /\ pc' = "conclude"
               /\ UNCHANGED termIdx
          ELSE /\ pc' = "relaxedDelay"
               /\ UNCHANGED << termIdx, bestResult, bestSearchTerm, searchLog >>
  /\ UNCHANGED << medications, collab, medIdx, searchTerms, allRejectedReasons,
                  searchErrors, results, delayed, calls, fnVars, route >>

\* the 300 ms pause of tryRelaxedSearch, reached when no candidate was accepted
RelaxedDelay ==
  /\ pc = "relaxedDelay"
  /\ delayed' = TRUE
  /\ RelaxedAdvance
  /\ UNCHANGED << medications, collab, medIdx, searchTerms, bestResult,
                  bestSearchTerm, allRejectedReasons, searchErrors, results,
                  searchLog, pending, calls, fnVars, route >>

\* if (bestResult) results.push(details) else the SEARCH_FAILED entry
Conclude ==
  /\ pc = "conclude"
  /\ IF IsSome(bestResult)
     THEN /\ results' = PushResult(results, Details(medIdx, CurrentMedication, Get(bestResult)))
          /\ UNCHANGED searchLog
     ELSE /\ searchLog' = PushLog(searchLog,
               LogEntry(medIdx, CurrentMedication, S_SEARCH_FAILED, FALSE, None,
                        IF Len(searchErrors) > 0
                        THEN ErrorText("Search errors", searchErrors)
                        ELSE IF Len(allRejectedReasons) > 0
                        THEN ErrorText("Found results but all were rejected",
                                       Slice(allRejectedReasons, FailedReasonsQuoted))
                        ELSE ErrorText("No results found in DailyMed database", <<>>),
                        Some(KeptReasons(allRejectedReasons))))
          /\ UNCHANGED results
  /\ medIdx' = medIdx + 1
  /\ pc' = "loop"
  /\ UNCHANGED << medications, collab, searchTerms, termIdx, bestResult,
                  bestSearchTerm, allRejectedReasons, searchErrors, pending,
                  delayed, calls, fnVars, route >>

\* return { results, searchLog }
Return ==
  /\ pc = "loop"
  /\ medIdx > Len(medications)
  /\ pc' = "done"
  /\ UNCHANGED << medications, collab, medIdx, searchTerms, termIdx, bestResult,
                  bestSearchTerm, allRejectedReasons, searchErrors, results,
                  searchLog, pending, delayed, calls, fnVars, route >>

-----------------------------------------------------------------------------
(* The runs that are checked: label records, endpoint replies, mentions *)

Item(id, title, labeler) == [setid |-> id, title |-> title, labeler |-> labeler]

I_metTabs == Item("met-tabs", <<"M","e","t","f","o","r","m","i","n"," ","H","y","d","r","o","c","h","l","o","r","i","d","e"," ","T","a","b","l","e","t","s">>, <<"T","e","v","a"," ","P","h","a","r","m","a","c","e","u","t","i","c","a","l","s">>)
I_metER == Item("met-er", <<"M","e","t","f","o","r","m","i","n"," ","E","x","t","e","n","d","e","d","-","R","e","l","e","a","s","e"," ","T","a","b","l","e","t","s">>, <<"S","u","n"," ","P","h","a","r","m","a">>)
I_metXR == Item("met-xr", <<"M","e","t","f","o","r","m","i","n"," ","X","R">>, <<>>)
I_metIR == Item("met-ir", <<"M","e","t","f","o","r","m","i","n"," ","I","R"," ","T","a","b","l","e","t","s">>, <<>>)
I_metVet == Item("met-vet", <<"M","e","t","f","o","r","m","i","n"," ","O","r","a","l">>, <<"Z","y","v","e","t"," ","A","n","i","m","a","l"," ","H","e","a","l","t","h">>)
I_aspirin == Item("asa", <<"A","s","p","i","r","i","n"," ","8","1"," ","m","g">>, <<"B","a","y","e","r">>)
I_tioCombo == Item("tio-olo", <<"T","i","o","t","r","o","p","i","u","m"," ","a","n","d"," ","O","l","o","d","a","t","e","r","o","l"," ","I","n","h","a","l","a","t","i","o","n"," ","S","p","r","a","y">>,
                   <<"B","o","e","h","r","i","n","g","e","r"," ","I","n","g","e","l","h","e","i","m">>)
I_cotrim == Item("cotrim", <<"C","o","-","T","r","i","m","o","x","a","z","o","l","e"," ","S","u","s","p","e","n","s","i","o","n">>, <<"P","f","i","z","e","r">>)
I_metPlain == Item("met-plain", <<"M","e","t","f","o","r","m","i","n"," ","5","0","0"," ","m","g">>, <<"A","c","m","e"," ","G","e","n","e","r","i","c","s">>)
I_combo == Item("ipra-alb", <<"I","p","r","a","t","r","o","p","i","u","m"," ","B","r","o","m","i","d","e"," ","a","n","d"," ","A","l","b","u","t","e","r","o","l"," ","S","u","l","f","a","t","e">>, <<>>)

Data(items) == Json(Array(items))

Replies ==
  { HttpError,
    Json(Undefined),
    Data(<<>>),
    Data(<<I_metTabs>>),
    Data(<<I_metER, I_metTabs, I_metVet>>),
    Data(<<I_metIR, I_metER, I_combo>>),
    Data(<<I_metXR, I_aspirin, I_metER>>),
    Data(<<I_metXR, I_aspirin, I_metER, I_cotrim, I_metPlain>>),
    Data(<<I_tioCombo>>) }

\* the endpoint changes its reply at most once, after at most MaxSwitch queries
MaxSwitch == 2

Script(first, switchAt, then, downFor) ==
  [first |-> first, switchAt |-> switchAt, then |-> then, downFor |-> downFor]

Collaborators ==
  { Script(r, 0, r, {}) : r \in Replies }
  \cup { Script(r[1], n, r[2], {}) :
           r \in {q \in Replies \X Replies : q[1] # q[2]}, n \in 1..MaxSwitch }
  \cup { Script(r, 0, r, {2}) : r \in Replies }

Mention(name, isString, formulation, delivery, context) ==
  [ name |-> name, nameIsString |-> isString, dosage |-> <<>>,
    formulation |-> formulation, deliveryMethod |-> delivery, fullContext |-> context ]

M_met == Mention(<<"m","e","t","f","o","r","m","i","n">>, TRUE, "IR", <<>>, <<"M","e","t","f","o","r","m","i","n"," ","5","0","0","m","g"," ","t","w","i","c","e"," ","d","a","i","l","y">>)
M_metER == Mention(<<"M","e","t","f","o","r","m","i","n">>, TRUE, "ER", <<>>, <<"M","e","t","f","o","r","m","i","n"," ","E","R"," ","5","0","0","m","g"," ","d","a","i","l","y">>)
M_tio == Mention(<<"t","i","o","t","r","o","p","i","u","m">>, TRUE, "IR", <<"h","a","n","d","i","h","a","l","e","r">>, <<"T","i","o","t","r","o","p","i","u","m"," ","1","8","m","c","g"," ","v","i","a"," ","H","a","n","d","i","H","a","l","e","r">>)
M_combo == Mention(<<"I","p","r","a","t","r","o","p","i","u","m","/","A","l","b","u","t","e","r","o","l">>, TRUE, "IR", <<>>, <<"I","p","r","a","t","r","o","p","i","u","m","/","A","l","b","u","t","e","r","o","l"," ","n","e","b","s">>)
M_cotrim == Mention(<<"c","o","-","t","r","i","m","o","x","a","z","o","l","e">>, TRUE, "IR", <<>>, <<"c","o","-","t","r","i","m","o","x","a","z","o","l","e"," ","4","8","0","m","g">>)
\* the LLM's JSON gave a number as name: med.name || '' keeps it
M_number == Mention(<<"4","2">>, FALSE, "IR", <<>>, <<"4","2">>)

Batches ==
  { <<>>, <<M_met>>, <<M_metER>>, <<M_tio>>, <<M_cotrim>>, <<M_number>>, <<M_combo>>,
    <<M_met, M_metER>>, <<M_met, M_met>>, <<M_number, M_met>>,
    <<M_met, M_cotrim, M_metER>>, <<M_cotrim, M_number, M_met>> }

-----------------------------------------------------------------------------
(* The inputs on which the classifier and the search wrapper are run *)

\* what can stand between the drug name and the dose in a context
Markers ==
  { <<>>, <<"E","R">>, <<"x","r">>, <<"X","L">>, <<"l","a">>, <<"S","R">>,
    <<"e","x","t","e","n","d","e","d"," ","r","e","l","e","a","s","e">>, <<"E","x","t","e","n","d","e","d","-","R","e","l","e","a","s","e">>, <<"s","u","s","t","a","i","n","e","d"," ","r","e","l","e","a","s","e">>,
    <<"s","u","s","t","a","i","n","e","d","-","r","e","l","e","a","s","e">>, <<"l","o","n","g","-","a","c","t","i","n","g">>, <<"l","o","n","g"," ","a","c","t","i","n","g">>, <<"e","x","t","e","n","d","e","d","r","e","l","e","a","s","e">>,
    <<"r","e","g","u","l","a","r">>, <<"l","a","t","e","r">>, <<"I","R">> }

ContextWith(marker) ==
  <<"m","e","t","f","o","r","m","i","n">> \o (IF marker = <<>> THEN <<>> ELSE Sp \o marker) \o <<" ","5","0","0","m","g">>

\* one element of the medications array of the LLM's JSON
LlmMed(formulation, fullContext) ==
  [ name |-> Some(<<"m","e","t","f","o","r","m","i","n">>), nameIsString |-> TRUE, dosage |-> Some(<<"5","0","0","m","g">>),
    formulation |-> formulation, deliveryMethod |-> None, fullContext |-> fullContext ]

LlmMeds ==
  { LlmMed(f, Some(ContextWith(m))) : f \in {"IR", "ER"}, m \in Markers }
  \cup { LlmMed(f, None) : f \in {"IR", "ER"} }

\* the completion fails or is not JSON (None), else the parsed medications
LlmAnswers ==
  { None, Some(<<>>) }
  \cup { Some(<<m>>) : m \in LlmMeds }
  \cup { Some(<<LlmMed("ER", Some(ContextWith(<<"X","R">>))), m>>) : m \in LlmMeds }

\* length of the filler text between the start of a patient text and the drug name
MaxPad == 52

\* n characters of filler: blanks with a full stop every tenth character
Pad(n) == AsSeq([i \in 1..n |-> IF i % 10 = 0 THEN "." ELSE " "], n)

Leads == { <<"T","a","k","e">>, <<"M","o","r","n","i","n","g"," ","d","o","s","e"," ","a","f","t","e","r">>, <<"M","e","t","f","o","r","m","i","n"," ","X","R"," ","w","a","s"," ","s","t","o","p","p","e","d">>, <<"P","a","t","i","e","n","t"," ","o","n"," ","E","R">> }
DrugWords == { <<"m","e","t","f","o","r","m","i","n">>, <<"L","i","s","i","n","o","p","r","i","l">> }
Tails == { <<" ","5","0","0","m","g">>, <<" ","X","R"," ","5","0","0","m","g">>, <<" ","5","0","0","m","g"," ","d","a","i","l","y",","," ","l","a","t","e","r"," ","d","o","u","b","l","e","d">> }

PatientTexts ==
  { lead \o Pad(n) \o drug \o tail :
      lead \in Leads, n \in 1..MaxPad, drug \in DrugWords, tail \in Tails }
  \cup { <<>>, <<"n","o"," ","m","e","d","i","c","a","t","i","o","n">>, <<"e","n","a","l","a","p","r","i","l"," ","a","n","d"," ","l","i","s","i","n","o","p","r","i","l"," ","E","R">>, <<"a","t","o","r","v","a","s","t","a","t","i","n">> }

\* number of label records in a payload
MaxItems == 2

ItemPool ==
  { I_metTabs, I_metER, I_metVet, I_aspirin, I_cotrim, I_metPlain,
    Item("pet", <<"P","e","t","r","o","l","a","t","u","m"," ","O","i","n","t","m","e","n","t">>, <<"C","a","r","d","i","n","a","l"," ","H","e","a","l","t","h">>) }

RECURSIVE SeqsUpTo(_, _)
SeqsUpTo(S, n) ==
  IF n = 0 THEN { <<>> }
  ELSE SeqsUpTo(S, n - 1)
       \cup { Append(q, x) : q \in {r \in SeqsUpTo(S, n - 1) : Len(r) = n - 1}, x \in S }

\* the ways a request to the DailyMed endpoint can end
Responses ==
  { [kind |-> "network_error"], [kind |-> "invalid_json"] }
  \cup { [kind |-> "http_error", status |-> s] : s \in {404, 429, 500, 503} }
  \cup { Json(Undefined), Json(Null), Json(Object) }
  \cup { Data(items) : items \in SeqsUpTo(ItemPool, MaxItems) }
       \cup { Data(<<I_metXR, I_aspirin, I_metER, I_cotrim, I_metPlain, I_metTabs>>) }


\* mentions and candidates for the matchers applied to one candidate
M_tioOlo == Mention(<<"t","i","o","t","r","o","p","i","u","m">>, TRUE, "IR", <<"i","n","h","a","l","e","r">>,
                    <<"T","i","o","t","r","o","p","i","u","m","/","O","l","o","d","a","t","e","r","o","l"," ","R","e","s","p","i","m","a","t"," ","2"," ","p","u","f","f","s"," ","d","a","i","l","y">>)
M_metInh == Mention(<<"M","e","t","f","o","r","m","i","n">>, TRUE, "ER", <<"I","n","h","a","l","e","r">>, <<"M","e","t","f","o","r","m","i","n"," ","X","R"," ","i","n","h","a","l","e","r">>)

\* med.name || '' for a mention without a name, and names with a dangling slash
M_noName == Mention(<<>>, TRUE, "IR", <<>>, <<"5","0","0","m","g"," ","t","w","i","c","e"," ","d","a","i","l","y">>)
M_metSlash == Mention(<<"m","e","t","f","o","r","m","i","n","/">>, TRUE, "IR", <<>>, <<"m","e","t","f","o","r","m","i","n","/"," ","5","0","0","m","g">>)
M_slashMet == Mention(<<"/","m","e","t","f","o","r","m","i","n">>, TRUE, "IR", <<>>, <<"/","m","e","t","f","o","r","m","i","n"," ","5","0","0","m","g">>)

MatchMentions ==
  { M_met, M_metER, M_tio, M_combo, M_cotrim, M_tioOlo, M_metInh,
    M_noName, M_metSlash, M_slashMet }

CandidateTitles ==
  { <<"M","e","t","f","o","r","m","i","n"," ","H","y","d","r","o","c","h","l","o","r","i","d","e"," ","T","a","b","l","e","t","s">>,
    <<"M","e","t","f","o","r","m","i","n"," ","E","x","t","e","n","d","e","d"," ","R","e","l","e","a","s","e"," ","T","a","b","l","e","t","s">>,
    <<"M","e","t","f","o","r","m","i","n"," ","E","x","t","e","n","d","e","d","-","R","e","l","e","a","s","e"," ","T","a","b","l","e","t","s">>,
    <<"M","e","t","f","o","r","m","i","n"," ","E","R">>,
    <<"M","e","t","f","o","r","m","i","n"," ","X","R"," ","5","0","0"," ","m","g">>,
    <<"M","e","t","f","o","r","m","i","n"," ","X","L">>,
    <<"M","e","t","f","o","r","m","i","n"," ","L","A"," ","O","r","a","l">>,
    <<"M","e","t","f","o","r","m","i","n"," ","S","u","s","t","a","i","n","e","d"," ","R","e","l","e","a","s","e">>,
    <<"M","e","t","f","o","r","m","i","n"," ","S","u","s","t","a","i","n","e","d","-","R","e","l","e","a","s","e">>,
    <<"M","e","t","f","o","r","m","i","n"," ","S","R">>,
    <<"M","e","t","f","o","r","m","i","n"," ","L","o","n","g","-","A","c","t","i","n","g"," ","T","a","b","l","e","t","s">>,
    <<"M","e","t","f","o","r","m","i","n"," ","I","R"," ","T","a","b","l","e","t","s">>,
    <<"M","e","t","f","o","r","m","i","n"," ","I","m","m","e","d","i","a","t","e"," ","R","e","l","e","a","s","e"," ","O","r","a","l"," ","S","o","l","u","t","i","o","n">>,
    <<"M","e","t","f","o","r","m","i","n"," ","P","e","t"," ","S","o","l","u","t","i","o","n"," ","X","R">>,
    <<"A","s","p","i","r","i","n"," ","V","e","t","e","r","i","n","a","r","y"," ","T","a","b","l","e","t","s">>,
    <<"A","s","p","i","r","i","n"," ","8","1"," ","m","g">>,
    <<"T","i","o","t","r","o","p","i","u","m"," ","B","r","o","m","i","d","e"," ","I","n","h","a","l","a","t","i","o","n"," ","P","o","w","d","e","r">>,
    <<"T","i","o","t","r","o","p","i","u","m"," ","a","n","d"," ","O","l","o","d","a","t","e","r","o","l"," ","I","n","h","a","l","a","t","i","o","n"," ","S","p","r","a","y">>,
    <<"T","i","o","t","r","o","p","i","u","m"," ","O","l","o","d","a","t","e","r","o","l"," ","S","o","l","u","t","i","o","n"," ","C","a","p","s","u","l","e"," ","L","A">>,
    <<"T","i","o","t","r","o","p","i","u","m"," ","E","q","u","i","n","e"," ","C","a","p","s","u","l","e"," ","E","R">>,
    <<"A","l","b","u","t","e","r","o","l"," ","S","u","l","f","a","t","e"," ","I","n","h","a","l","a","t","i","o","n"," ","S","o","l","u","t","i","o","n">>,
    <<"T","r","i","m","o","x","a","z","o","l","e"," ","C","a","n","i","n","e"," ","S","u","s","p","e","n","s","i","o","n"," ","S","R">>,
    <<"C","o"," ","T","r","i","m","o","x","a","z","o","l","e"," ","S","u","s","p","e","n","s","i","o","n">> }

CandidateLabelers == { <<>>, <<"T","e","v","a"," ","P","h","a","r","m","a","c","e","u","t","i","c","a","l","s">>, <<"Z","y","v","e","t"," ","A","n","i","m","a","l"," ","H","e","a","l","t","h">> }

MatchInputs ==
  { [ medication |-> m, result |-> [setId |-> "x", title |-> t, labeler |-> l] ] :
      m \in MatchMentions, t \in CandidateTitles, l \in CandidateLabelers }

\* names, delivery methods and contexts for the term generator
TermNames ==
  { <<"m","e","t","f","o","r","m","i","n">>,
    <<"M","e","t","f","o","r","m","i","n"," ","X","R">>,
    <<" "," ","M","e","t","f","o","r","m","i","n"," "," ","H","C","l"," ">>,
    <<"t","i","o","t","r","o","p","i","u","m">>,
    <<"c","o","-","t","r","i","m","o","x","a","z","o","l","e">>,
    <<"l","i","s","i","n","o","p","r","i","l","/","h","y","d","r","o","c","h","l","o","r","o","t","h","i","a","z","i","d","e">>,
    <<"I","p","r","a","t","r","o","p","i","u","m"," ","/"," ","A","l","b","u","t","e","r","o","l">>,
    <<"e","m","t","r","i","c","i","t","a","b","i","n","e","/","t","e","n","o","f","o","v","i","r","/","e","f","a","v","i","r","e","n","z">>,
    <<"n","i","a","c","i","n","/","n","i","a","c","i","n">>,
    <<"i","p","r","a","t","r","o","p","i","u","m"," ","a","n","d"," ","a","l","b","u","t","e","r","o","l">>,
    <<"T","i","o","t","r","o","p","i","u","m"," ","&"," ","O","l","o","d","a","t","e","r","o","l">>,
    <<"a"," ","a","n","d"," ","b"," ","a","n","d"," ","c">>,
    <<"s","u","l","f","a","m","e","t","h","o","x","a","z","o","l","e"," ","a","n","d"," ","t","r","i","m","e","t","h","o","p","r","i","m","/","p","l","a","c","e","b","o">>,
    <<"a","/","b","/","c"," ","a","n","d"," ","d">> }

TermDeliveries == { <<>>, <<"i","n","h","a","l","e","r">>, <<"H","a","n","d","i","H","a","l","e","r">>, <<"t","a","b","l","e","t">>, <<"R","e","s","p","i","m","a","t">>, <<" ","I","n","h","a","l","e","r"," ">> }

TermContexts == { <<"a","s"," ","d","i","r","e","c","t","e","d">>, <<"2"," ","p","u","f","f","s"," ","v","i","a"," ","R","e","s","p","i","m","a","t"," ","d","a","i","l","y">> }

TermMentions ==
  { Mention(n, TRUE, f, d, c) :
      n \in TermNames, f \in {"IR", "ER"}, d \in TermDeliveries, c \in TermContexts }

\* dosage strings and search results for the dosage-availability correction
DosageStrings == { <<>>, <<"5","0","0","m","g">>, <<"1","2",".","5"," ","m","g">>, <<"4","9","/","5","1","m","g">>, <<"1","0">> }

DosageResultPool ==
  { [setId |-> "d1", title |-> <<"M","e","t","f","o","r","m","i","n"," ","5","0","0"," ","m","g"," ","T","a","b","l","e","t","s">>],
    [setId |-> "d2", title |-> <<"M","e","t","f","o","r","m","i","n"," ","X","R"," ","5","0","0","m","g">>],
    [setId |-> "d3", title |-> <<"M","e","t","f","o","r","m","i","n"," ","E","R"," ","7","5","0"," ","m","g">>],
    [setId |-> "d4", title |-> <<"M","e","t","f","o","r","m","i","n"," ","H","y","d","r","o","c","h","l","o","r","i","d","e"," ","T","a","b","l","e","t","s">>],
    [setId |-> "d5", title |-> <<"S","a","c","u","b","i","t","r","i","l"," ","a","n","d"," ","V","a","l","s","a","r","t","a","n"," ","4","9","/","5","1">>],
    [setId |-> "d6", title |-> <<"M","e","t","o","p","r","o","l","o","l"," ","S","R"," ","1","2",".","5"," ","m","g">> ] }

DosageInputs ==
  { [ medication |-> [name |-> <<"m","e","t","f","o","r","m","i","n">>, dosage |-> d, formulation |-> f],
      searchResults |-> rs ] :
      d \in DosageStrings, f \in {"IR", "ER"}, rs \in SeqsUpTo(DosageResultPool, MaxItems) }

\* mentions with a dosage and replies for /api/generate-games
WithDosage(m) == [m EXCEPT !.dosage = <<"5","0","0","m","g">>]

I_metXR500 == Item("met-xr500", <<"M","e","t","f","o","r","m","i","n"," ","X","R"," ","5","0","0"," ","m","g">>, <<>>)

GamesBatches ==
  { <<M_met>>,
    <<WithDosage(M_met)>>,
    <<WithDosage(M_metER)>>,
    <<WithDosage(M_met), WithDosage(M_metER)>>,
    <<WithDosage(M_cotrim), WithDosage(M_met)>>,
    <<WithDosage(M_cotrim), WithDosage(M_metER)>>,
    <<M_number, WithDosage(M_metER), WithDosage(M_met)>> }

GamesReplies ==
  { HttpError, Data(<<>>), Data(<<I_metTabs>>), Data(<<I_metPlain>>),
    Data(<<I_metXR500>>), Data(<<I_metXR500, I_metPlain>>) }

\* a name with a slash and a hyphen: three different relaxed terms
M_cocodamol == Mention(<<"C","o","-","c","o","d","a","m","o","l","/","P","a","r","a","c","e","t","a","m","o","l">>, TRUE, "IR", <<>>,
                       <<"C","o","-","c","o","d","a","m","o","l","/","P","a","r","a","c","e","t","a","m","o","l"," ","3","0","/","5","0","0"," ","f","o","u","r"," ","t","i","m","e","s"," ","d","a","i","l","y">>)

LongBatches ==
  { <<M_cocodamol>>, <<M_met, M_cocodamol>>, <<M_cocodamol, M_metER>>,
    <<M_number, M_met>>, <<M_tio, M_cotrim>> }

\* the endpoint gives the same reply to every query, or is down for mention 2
SteadyCollaborators == { c \in Collaborators : c.switchAt = 0 }

\* names of human medicines that contain a veterinary keyword
M_lev == Mention(<<"L","e","v","e","t","i","r","a","c","e","t","a","m">>, TRUE, "IR", <<>>, <<"L","e","v","e","t","i","r","a","c","e","t","a","m"," ","5","0","0","m","g"," ","t","w","i","c","e"," ","d","a","i","l","y">>)
M_petrolatum == Mention(<<"p","e","t","r","o","l","a","t","u","m">>, TRUE, "IR", <<>>, <<"w","h","i","t","e"," ","p","e","t","r","o","l","a","t","u","m"," ","t","o"," ","d","r","y"," ","s","k","i","n">>)

I_lev == Item("lev", <<"L","e","v","e","t","i","r","a","c","e","t","a","m"," ","T","a","b","l","e","t","s">>, <<"L","u","p","i","n"," ","P","h","a","r","m","a","c","e","u","t","i","c","a","l","s">>)
I_petrolatum == Item("pet", <<"P","e","t","r","o","l","a","t","u","m"," ","O","i","n","t","m","e","n","t">>, <<"C","a","r","d","i","n","a","l"," ","H","e","a","l","t","h">>)

KeywordBatches ==
  { <<M_lev>>, <<M_petrolatum>>, <<M_lev, M_met>>, <<M_tio, M_lev>>,
    <<M_number, M_petrolatum>>, <<M_met, M_lev, M_petrolatum>> }

KeywordReplies ==
  { HttpError, Data(<<>>), Data(<<I_lev>>), Data(<<I_lev, I_metTabs>>),
    Data(<<I_aspirin, I_petrolatum, I_lev>>), Data(<<I_tioCombo, I_lev, I_petrolatum>>) }

KeywordCollaborators ==
  { Script(r, 0, r, {}) : r \in KeywordReplies }
  \cup { Script(r, 0, r, {2}) : r \in KeywordReplies }
-----------------------------------------------------------------------------
(* /api/generate-modules: validation of the matches and the retry with the
   corrected search terms (registerRoutes in server/services/openai.ts) *)

S_corrected == <<" ","(","c","o","r","r","e","c","t","e","d",")">>
S_correctedFailed == <<" ","(","c","o","r","r","e","c","t","e","d"," ","-"," ","f","a","i","l","e","d",")">>
S_Unknown == <<"U","n","k","n","o","w","n">>

\* the correctedSearchTerms the validating LLM can answer with
CorrectedTerms ==
  { <<>>,
    << <<"m","e","t","f","o","r","m","i","n"," ","h","y","d","r","o","c","h","l","o","r","i","d","e">> >>,
    << <<"m","e","t","f","o","r","m","i","n"," ","h","y","d","r","o","c","h","l","o","r","i","d","e">>, <<"t","i","o","t","r","o","p","i","u","m"," ","b","r","o","m","i","d","e">> >>,
    << <<"m","e","t","f","o","r","m","i","n">>, <<"a","s","p","i","r","i","n">>, <<"c","o","-","t","r","i","m","o","x","a","z","o","l","e">>, <<"t","i","o","t","r","o","p","i","u","m">> >> }

\* what one callback of correctedSearchTerms.map(async ...) returns for the
\* term at position k (index = k - 1) once its search has returned out
RetryOutcome(k, searchTerm, out) ==
  LET none == [ index |-> k, searchTerm |-> searchTerm, found |-> FALSE,
                details |-> None, resultTitle |-> None, error |-> None ]
  IN
  IF out.error THEN [none EXCEPT !.error = Some("Failed to search medications")]
  ELSE IF Len(out.list) > 0 /\ k <= Len(medications)
  THEN IF ~medications[k].nameIsString
       THEN \* medication.name.toLowerCase() throws in the matcher: the catch
            [none EXCEPT !.error = Some("TypeError")]
       ELSE LET checked == Slice(out.list, StrictTop)
                hit == FirstTrue(AsSeq([j \in 1..Len(checked) |->
                         isAppropriateMatchWithReasons(medications[k], checked[j]).isMatch],
                         Len(checked)))
            IN IF hit > 0
               THEN [none EXCEPT !.found = TRUE,
                                 !.details = Some(Details(k, medications[k], checked[hit])),
                                 !.resultTitle = Some(checked[hit].title)]
               ELSE none
  ELSE none

\* the entry that the loop over extractedMedications pushes for position i
RetryLogEntry(i, retryResult) ==
  IF IsSome(retryResult) /\ Get(retryResult).found
  THEN LogEntry(i, medications[i], Get(retryResult).searchTerm \o S_corrected, TRUE,
                Get(retryResult).resultTitle, NoError, None)
  ELSE LogEntry(i, medications[i],
                (IF IsSome(retryResult) THEN Get(retryResult).searchTerm ELSE S_Unknown)
                  \o S_correctedFailed,
                FALSE, None,
                IF IsSome(retryResult) /\ IsSome(Get(retryResult).error)
                THEN ErrorText(Get(Get(retryResult).error), <<>>)
                ELSE ErrorText("No appropriate match found", <<>>),
                None)

\* improvedResults[i]: the retry's details, else dailyMedResults[i], else null
ImprovedResult(i, retryResult, dailyMedResults) ==
  IF IsSome(retryResult) /\ Get(retryResult).found THEN Get(retryResult).details
  ELSE IF i <= Len(dailyMedResults) THEN Some(dailyMedResults[i])
  ELSE None

\* improvedResults.filter(result => result !== null)
RECURSIVE NonNull(_)
NonNull(list) ==
  IF list = <<>> THEN <<>>
  ELSE (IF IsSome(Head(list)) THEN <<Get(Head(list))>> ELSE <<>>) \o NonNull(Tail(list))

\* retryResults[i] of the merge loop: undefined beyond the corrected terms
RetryResultAt(retryResults, i) ==
  IF i <= Len(retryResults) THEN retryResults[i] ELSE None

\* searchMultipleMedications has returned; validateMedicationMatches answers
Validate ==
  /\ pc = "done"
  /\ route.phase = "search"
  /\ \E validated \in BOOLEAN, corrected \in CorrectedTerms :
       route' = [ phase |-> IF ~validated /\ Len(corrected) > 0 THEN "retry" ELSE "assess",
                  validated |-> validated,
                  correctedSearchTerms |-> corrected,
                  retryResults |-> AsSeq([k \in 1..Len(corrected) |-> None], Len(corrected)),
                  dailyMedResults |-> results,
                  searchLog |-> searchLog ]
  /\ UNCHANGED << searchVars, fnVars >>

\* correctedSearchTerms.map(async ...): every callback runs up to its first
\* await, the fetch of searchMedications, before map returns
RetrySend ==
  /\ route.phase = "retry"
  /\ LET queries == AsSeq([k \in 1..Len(route.correctedSearchTerms) |->
                             [mention |-> k, term |-> route.correctedSearchTerms[k]]],
                          Len(route.correctedSearchTerms))
     IN /\ pending' = pending \o queries
        /\ calls' = calls \o queries
  /\ delayed' = FALSE
  /\ route' = [route EXCEPT !.phase = "retryAwait"]
  /\ UNCHANGED << medications, collab, pc, medIdx, searchTerms, termIdx, bestResult,
                  bestSearchTerm, allRejectedReasons, searchErrors, results,
                  searchLog, fnVars >>

\* one of the searches in flight returns or throws; its callback completes
RetryReturn ==
  /\ route.phase = "retryAwait"
  /\ \E j \in 1..Len(pending) :
     \E k \in {pending[j].mention} :
     \E response \in Answers(collab, k,
                             Len(calls) - Len(route.correctedSearchTerms) + k) :
     \E outcome \in {RetryOutcome(k, pending[j].term, searchMedications(response))} :
       /\ pending' = SubSeq(pending, 1, j - 1) \o SubSeq(pending, j + 1, Len(pending))
       /\ route' = [route EXCEPT !.retryResults[k] = Some(outcome)]
  /\ UNCHANGED << medications, collab, pc, medIdx, searchTerms, termIdx, bestResult,
                  bestSearchTerm, allRejectedReasons, searchErrors, results,
                  searchLog, delayed, calls, fnVars >>

\* await Promise.all(retrySearchPromises), the loop over extractedMedications
\* and, if one term improved a result, the second validation
RetryMerge ==
  /\ route.phase = "retryAwait"
  /\ pending = <<>>
  /\ \E revalidated \in BOOLEAN :
     \E n \in {Len(medications)} :
     \E improvedResults \in
          {AsSeq([i \in 1..n |-> ImprovedResult(i, RetryResultAt(route.retryResults, i),
                                                route.dailyMedResults)], n)} :
     \E improvedSearchLog \in
          {route.searchLog \o
           AsSeq([i \in 1..n |-> RetryLogEntry(i, RetryResultAt(route.retryResults, i))], n)} :
       LET foundAtLeastOne ==
             \E i \in 1..n : /\ IsSome(RetryResultAt(route.retryResults, i))
                             /\ Get(RetryResultAt(route.retryResults, i)).found
       IN route' = IF foundAtLeastOne
                   THEN [route EXCEPT !.phase = "assess",
                                      !.dailyMedResults = NonNull(improvedResults),
                                      !.searchLog = improvedSearchLog,
                                      !.validated = revalidated]
                   ELSE [route EXCEPT !.phase = "assess"]
  /\ UNCHANGED << searchVars, fnVars >>


-----------------------------------------------------------------------------
(* /api/generate-games: the dosage loop after the search *)

\* extractedMedications[i] after the body of the dosage loop for position i
AfterDosageCheck(med, i, dailyMedResults) ==
  IF med.dosage # <<>> /\ i <= Len(dailyMedResults)
  THEN [med EXCEPT !.formulation =
          validateDosageAvailability(med, << dailyMedResults[i] >>).formulation]
  ELSE med

\* searchMultipleMedications has returned; the loop over extractedMedications
\* updates the formulations in place. route.extracted keeps the mentions as
\* they were extracted (history)
DosageLoop ==
  /\ pc = "done"
  /\ route.phase = "search"
  /\ medications' = AsSeq([i \in 1..Len(medications) |->
                             AfterDosageCheck(medications[i], i, results)],
                          Len(medications))
  /\ route' = [ phase |-> "dosage", validated |-> FALSE, correctedSearchTerms |-> <<>>,
                retryResults |-> <<>>, dailyMedResults |-> results,
                searchLog |-> searchLog, extracted |-> medications ]
  /\ UNCHANGED << collab, pc, medIdx, searchTerms, termIdx, bestResult, bestSearchTerm,
                  allRejectedReasons, searchErrors, results, searchLog, pending,
                  delayed, calls, fnVars >>
-----------------------------------------------------------------------------
(* Specifications *)

FnIdle == fnOp = "none" /\ fnArg = <<>> /\ fnRes = None

\* no batch is being resolved
SearchIdle ==
  /\ medications = <<>>
  /\ collab = Script(HttpError, 0, HttpError, {})
  /\ pc = "idle"
  /\ medIdx = 1
  /\ searchTerms = <<>>
  /\ termIdx = 1
  /\ bestResult = None
  /\ bestSearchTerm = <<>>
  /\ allRejectedReasons = <<>>
  /\ searchErrors = <<>>
  /\ results = <<>>
  /\ searchLog = <<>>
  /\ pending = <<>>
  /\ delayed = TRUE
  /\ calls = <<>>

RouteIdle ==
  [ phase |-> "search", validated |-> FALSE, correctedSearchTerms |-> <<>>,
    retryResults |-> <<>>, dailyMedResults |-> <<>>, searchLog |-> <<>> ]

InitSearch ==
  /\ medications \in Batches
  /\ collab \in Collaborators
  /\ pc = "loop"
  /\ medIdx = 1
  /\ searchTerms = <<>>
  /\ termIdx = 1
  /\ bestResult = None
  /\ bestSearchTerm = <<>>
  /\ allRejectedReasons = <<>>
  /\ searchErrors = <<>>
  /\ results = <<>>
  /\ searchLog = <<>>
  /\ pending = <<>>
  /\ delayed = TRUE
  /\ calls = <<>>

Init == FnIdle /\ InitSearch /\ route = RouteIdle

Next ==
  \/ BeginMedication
  \/ ProcessingError
  \/ StrictCall
  \/ StrictReturn
  \/ StrictDelay
  \/ RelaxedCall
  \/ RelaxedReturn
  \/ RelaxedDelay
  \/ Conclude
  \/ Return

Spec == Init /\ [][Next]_vars

\* the request handler: the resolution loop, then validation and retry
NextRoute ==
  \/ Next
  \/ Validate
  \/ RetrySend
  \/ RetryReturn
  \/ RetryMerge

\* requests against an endpoint whose reply does not change during the request
InitRoute == Init /\ collab.switchAt = 0

SpecRoute == InitRoute /\ [][NextRoute]_vars

\* openAIService.extractMedicationsFromText on the LLM's answer fnArg.llm
ExtractFromText ==
  /\ fnOp = "none"
  /\ fnArg.path = "llm"
  /\ fnOp' = "extractMedicationsFromText"
  /\ fnRes' = Some(extractMedicationsFromText(fnArg.llm))
  /\ UNCHANGED << fnArg, searchVars, route >>

\* dailyMedService.extractMedicationNames on the patient text fnArg.patientInfo
ExtractNames ==
  /\ fnOp = "none"
  /\ fnArg.path = "pattern"
  /\ fnOp' = "extractMedicationNames"
  /\ fnRes' = Some(extractMedicationNames(fnArg.patientInfo))
  /\ UNCHANGED << fnArg, searchVars, route >>

InitClassify ==
  /\ fnOp = "none"
  /\ fnArg \in { [path |-> "llm", llm |-> a] : a \in LlmAnswers }
              \cup { [path |-> "pattern", patientInfo |-> t] : t \in PatientTexts }
  /\ fnRes = None
  /\ SearchIdle
  /\ route = RouteIdle

NextClassify ==
  \/ ExtractFromText
  \/ ExtractNames

SpecClassify == InitClassify /\ [][NextClassify]_vars

\* dailyMedService.searchMedications(query) when the request ends as fnArg
ApplySearch ==
  /\ fnOp = "none"
  /\ fnOp' = "searchMedications"
  /\ fnRes' = Some(searchMedications(fnArg))
  /\ UNCHANGED << fnArg, searchVars, route >>

InitSearchFn ==
  /\ fnOp = "none"
  /\ fnArg \in Responses
  /\ fnRes = None
  /\ SearchIdle
  /\ route = RouteIdle

NextSearchFn == ApplySearch

SpecSearch == InitSearchFn /\ [][NextSearchFn]_vars

\* dailyMedService.isAppropriateMatchWithReasons(fnArg.medication, fnArg.result)
ApplyStrict ==
  /\ fnOp = "none"
  /\ pc = "idle"
  /\ fnArg \in MatchInputs
  /\ fnOp' = "isAppropriateMatchWithReasons"
  /\ fnRes' = Some(isAppropriateMatchWithReasons(fnArg.medication, fnArg.result))
  /\ UNCHANGED << fnArg, searchVars, route >>

\* the body of the candidate loop of tryRelaxedSearch on fnArg.result:
\* TRUE when the candidate is returned, FALSE when the loop continues
ApplyRelaxed ==
  /\ fnOp = "none"
  /\ pc = "idle"
  /\ fnArg \in MatchInputs
  /\ fnOp' = "tryRelaxedSearch"
  /\ fnRes' = Some(RelaxedAccepts(fnArg.medication, fnArg.result))
  /\ UNCHANGED << fnArg, searchVars, route >>

InitMatch ==
  /\ fnOp = "none"
  /\ fnArg \in MatchInputs
  /\ fnRes = None
  /\ SearchIdle
  /\ route = RouteIdle

NextMatch ==
  \/ ApplyStrict
  \/ ApplyRelaxed

SpecMatch == InitMatch /\ [][NextMatch]_vars

\* the resolution loop, or one of the matchers applied to one candidate
InitAccept == Init \/ InitMatch

NextAccept ==
  \/ Next
  \/ NextMatch

SpecAccept == InitAccept /\ [][NextAccept]_vars

\* dailyMedService.generateCombinationPermutations(fnArg.name)
ExpandName ==
  /\ fnOp = "none"
  /\ fnOp' = "generateCombinationPermutations"
  /\ fnRes' = Some(generateCombinationPermutations(fnArg.name))
  /\ UNCHANGED << fnArg, searchVars, route >>

\* dailyMedService.generateSearchTerms(fnArg)
GenerateTerms ==
  /\ fnOp = "none"
  /\ fnOp' = "generateSearchTerms"
  /\ fnRes' = Some(generateSearchTerms(fnArg))
  /\ UNCHANGED << fnArg, searchVars, route >>

InitTerms ==
  /\ fnOp = "none"
  /\ fnArg \in TermMentions
  /\ fnRes = None
  /\ SearchIdle
  /\ route = RouteIdle

NextTerms ==
  \/ ExpandName
  \/ GenerateTerms

SpecTerms == InitTerms /\ [][NextTerms]_vars

\* variant of Rerun for a service that keeps its log from one run to the next
RerunKeepingLog ==
  /\ pc = "done"
  /\ fnOp = "none"
  /\ fnOp' = "searchMultipleMedications"
  /\ fnArg' = medications
  /\ fnRes' = Some([results |-> results, searchLog |-> searchLog, calls |-> calls])
  /\ results' = <<>>
  /\ medIdx' = 1
  /\ pc' = "loop"
  /\ calls' = <<>>
  /\ delayed' = TRUE
  /\ UNCHANGED << medications, collab, searchTerms, termIdx, bestResult, bestSearchTerm,
                  allRejectedReasons, searchErrors, searchLog, pending, route >>

\* searchMultipleMedications is called again on the same service with the same
\* mentions, against the same stub started anew; fnRes keeps what the first
\* run returned and the queries that the stub received
Rerun ==
  /\ pc = "done"
  /\ fnOp = "none"
  /\ fnOp' = "searchMultipleMedications"
  /\ fnArg' = medications
  /\ fnRes' = Some([results |-> results, searchLog |-> searchLog, calls |-> calls])
  /\ results' = <<>>
  /\ searchLog' = <<>>
  /\ medIdx' = 1
  /\ pc' = "loop"
  /\ calls' = <<>>
  /\ delayed' = TRUE
  /\ UNCHANGED << medications, collab, searchTerms, termIdx, bestResult, bestSearchTerm,
                  allRejectedReasons, searchErrors, pending, route >>

\* two runs against a stub that changes its reply after at most one query
InitTwice == Init /\ collab.switchAt <= 1

NextTwice ==
  \/ Next
  \/ Rerun

SpecTwice == InitTwice /\ [][NextTwice]_vars

\* openAIService.validateDosageAvailability(fnArg.medication, fnArg.searchResults)
ApplyDosage ==
  /\ fnOp = "none"
  /\ fnOp' = "validateDosageAvailability"
  /\ fnRes' = Some(validateDosageAvailability(fnArg.medication, fnArg.searchResults))
  /\ UNCHANGED << fnArg, searchVars, route >>

InitDosage ==
  /\ fnOp = "none"
  /\ fnArg \in DosageInputs
  /\ fnRes = None
  /\ SearchIdle
  /\ route = RouteIdle

NextDosage == ApplyDosage

SpecDosage == InitDosage /\ [][NextDosage]_vars

\* /api/generate-games: the resolution loop, then the dosage loop
InitGames ==
  /\ FnIdle
  /\ route = RouteIdle
  /\ medications \in GamesBatches
  /\ collab \in { Script(r, 0, r, {}) : r \in GamesReplies }
  /\ pc = "loop"
  /\ medIdx = 1
  /\ searchTerms = <<>>
  /\ termIdx = 1
  /\ bestResult = None
  /\ bestSearchTerm = <<>>
  /\ allRejectedReasons = <<>>
  /\ searchErrors = <<>>
  /\ results = <<>>
  /\ searchLog = <<>>
  /\ pending = <<>>
  /\ delayed = TRUE
  /\ calls = <<>>

NextGames ==
  \/ Next
  \/ DosageLoop

SpecGames == InitGames /\ [][NextGames]_vars

\* searchMultipleMedications for mentions with many search terms
InitLong ==
  /\ FnIdle
  /\ route = RouteIdle
  /\ medications \in LongBatches
  /\ collab \in SteadyCollaborators
  /\ pc = "loop"
  /\ medIdx = 1
  /\ searchTerms = <<>>
  /\ termIdx = 1
  /\ bestResult = None
  /\ bestSearchTerm = <<>>
  /\ allRejectedReasons = <<>>
  /\ searchErrors = <<>>
  /\ results = <<>>
  /\ searchLog = <<>>
  /\ pending = <<>>
  /\ delayed = TRUE
  /\ calls = <<>>

SpecLong == InitLong /\ [][Next]_vars

\* searchMultipleMedications for mentions whose name contains a keyword of the
\* veterinary filter
InitKeyword ==
  /\ FnIdle
  /\ route = RouteIdle
  /\ medications \in KeywordBatches
  /\ collab \in KeywordCollaborators
  /\ pc = "loop"
  /\ medIdx = 1
  /\ searchTerms = <<>>
  /\ termIdx = 1
  /\ bestResult = None
  /\ bestSearchTerm = <<>>
  /\ allRejectedReasons = <<>>
  /\ searchErrors = <<>>
  /\ results = <<>>
  /\ searchLog = <<>>
  /\ pending = <<>>
  /\ delayed = TRUE
  /\ calls = <<>>

SpecKeyword == InitKeyword /\ [][Next]_vars
-----------------------------------------------------------------------------
(* Properties *)

\* text contains one of words as a whole word, case-insensitively
HasWholeWord(words, text) == RegexTest(words, text)

\* the entries that close a mention, as opposed to the entries of a search
IsFailedEntry(e) == e.searchTerm = S_SEARCH_FAILED
IsProcessingEntry(e) == e.searchTerm = S_PROCESSING_ERROR
IsSearchEntry(e) == ~IsFailedEntry(e) /\ ~IsProcessingEntry(e)

\* the log entries of mention i, in log order
EntriesOf(i) == SelectSeq(searchLog, LAMBDA e : e.mention = i)

\* the results entries of mention i
ResultsOf(i) == SelectSeq(results, LAMBDA d : d.mention = i)

\* the mentions the loop has finished with
Finished == 1..(medIdx - 1)

BetweenMentions == pc \in {"loop", "done"}

RECURSIVE ConcatAll(_)
ConcatAll(ss) == IF ss = <<>> THEN <<>> ELSE Head(ss) \o ConcatAll(Tail(ss))

\* the rejection reasons of the strict searches of mention i, in log order
ReasonsOf(i) ==
  LET searched == SelectSeq(EntriesOf(i),
                    LAMBDA e : IsSearchEntry(e) /\ IsSome(e.rejectedReasons))
  IN ConcatAll(AsSeq([k \in 1..Len(searched) |-> Get(searched[k].rejectedReasons)],
                     Len(searched)))

(* C1: a mention is classified ER only when its context contains an explicit
   extended-release keyword. In the LLM path, an element of the LLM's list
   whose fullContext contains none of the keywords as a whole word comes out
   IR whatever formulation the LLM reported; in the pattern path, a patient
   text that contains none of the keywords as a whole word anywhere yields
   only IR mentions. *)
C1_Keywords ==
  { <<"e","x","t","e","n","d","e","d"," ","r","e","l","e","a","s","e">>, <<"e","x","t","e","n","d","e","d","-","r","e","l","e","a","s","e">>, <<"e","r">>, <<"x","r">>, <<"x","l">>, <<"l","a">>,
    <<"s","u","s","t","a","i","n","e","d"," ","r","e","l","e","a","s","e">>, <<"s","u","s","t","a","i","n","e","d","-","r","e","l","e","a","s","e">>, <<"s","r">>, <<"l","o","n","g","-","a","c","t","i","n","g">> }

\* the LLM path, on the fullContext of each element of the LLM's list
C1_LlmPath ==
  fnOp = "extractMedicationsFromText" =>
    \A i \in 1..Len(Get(fnRes)) :
      ~HasWholeWord(C1_Keywords, OrEmpty(Get(fnArg.llm)[i].fullContext))
        => Get(fnRes)[i].formulation = "IR"

\* the pattern path, on the whole patient text
C1_PatternPath ==
  fnOp = "extractMedicationNames" =>
    (~HasWholeWord(C1_Keywords, fnArg.patientInfo)
       => \A i \in 1..Len(Get(fnRes)) : Get(fnRes)[i].formulation = "IR")

C1_ErOnlyWhenExplicit == C1_LlmPath /\ C1_PatternPath

\* an ER verdict on a context that does contain a keyword: the rule's other half
C1_Witness ==
  /\ fnOp = "extractMedicationsFromText"
  /\ \E i \in 1..Len(Get(fnRes)) :
       /\ Get(fnRes)[i].formulation = "ER"
       /\ HasWholeWord(C1_Keywords, OrEmpty(Get(fnArg.llm)[i].fullContext))

(* C2: formulation correctness is never relaxed. Every entry of results,
   accepted by the strict matcher or by the relaxed search, has a title that
   contains no extended-release word as a whole word if its mention is IR and
   no immediate-release word if its mention is ER. *)
C2_ErWords ==
  { <<"e","x","t","e","n","d","e","d"," ","r","e","l","e","a","s","e">>, <<"e","x","t","e","n","d","e","d","-","r","e","l","e","a","s","e">>, <<"e","r">>, <<"x","l">>, <<"x","r">>,
    <<"s","u","s","t","a","i","n","e","d"," ","r","e","l","e","a","s","e">>, <<"s","u","s","t","a","i","n","e","d","-","r","e","l","e","a","s","e">>, <<"s","r">>, <<"l","a">> }

C2_IrWords == { <<"i","m","m","e","d","i","a","t","e"," ","r","e","l","e","a","s","e">>, <<"i","m","m","e","d","i","a","t","e","-","r","e","l","e","a","s","e">>, <<"i","r">> }

C2_FormulationNeverRelaxed ==
  \A k \in 1..Len(results) :
    LET formulation == medications[results[k].mention].formulation IN
    /\ formulation = "IR" => ~HasWholeWord(C2_ErWords, results[k].title)
    /\ formulation = "ER" => ~HasWholeWord(C2_IrWords, results[k].title)

\* an IR mention resolved by the relaxed search after extended-release
\* candidates were passed over, next to a resolved ER mention
C2_Witness ==
  /\ pc = "done"
  /\ \E j, k \in 1..Len(results) :
       /\ medications[results[j].mention].formulation = "IR"
       /\ results[j].setId = "met-plain"
       /\ \E e \in Range(EntriesOf(results[j].mention)) :
            e.found /\ e.searchTerm = <<"m","e","t","f","o","r","m","i","n"," ","(","r","e","l","a","x","e","d",")">>
       /\ medications[results[k].mention].formulation = "ER"

(* C3: scenario B. The only mention is tiotropium by handihaler, IR, with no
   olodaterol in its context, and every query returns only "Tiotropium and
   Olodaterol Inhalation Spray". Then at the end results is empty and the log
   ends with a SEARCH_FAILED entry. *)
C3_IsScenarioB ==
  /\ medications = <<M_tio>>
  /\ collab = Script(Data(<<I_tioCombo>>), 0, Data(<<I_tioCombo>>), {})

C3_ScenarioBUnresolved ==
  (C3_IsScenarioB /\ pc = "done") =>
    /\ results = <<>>
    /\ searchLog # <<>>
    /\ IsFailedEntry(searchLog[Len(searchLog)])

\* scenario B has run to its end and every strict search rejected the
\* candidate for the olodaterol it contains
C3_Witness ==
  /\ C3_IsScenarioB
  /\ pc = "done"
  /\ Len(allRejectedReasons) = Len(searchTerms)
  /\ \A k \in 1..Len(allRejectedReasons) :
       allRejectedReasons[k].reason =
         "contains olodaterol but patient info doesn't mention it"

(* C4: the search log has exactly one entry per call to the search
   collaborator, in call order: the entries of searches (all entries but the
   SEARCH_FAILED and PROCESSING_ERROR ones) correspond one to one, in order,
   to the calls that have been answered. *)
C4_OneEntryPerCall ==
  LET searched == SelectSeq(searchLog, IsSearchEntry)
      answered == Len(calls) - Len(pending)
  IN /\ Len(searched) = answered
     /\ \A k \in 1..Min(Len(searched), answered) :
          /\ searched[k].mention = calls[k].mention
          /\ searched[k].searchTerm \in {calls[k].term, calls[k].term \o S_relaxedMark}

\* a relaxed search has been answered
C4_Witness ==
  /\ pc \in {"relaxedDelay", "conclude"}
  /\ pending = <<>>
  /\ calls # <<>>
  /\ Len(calls) > Len(searchTerms)

(* C5: at most one results entry per mention, and results is ordered like the
   input: the mentions of the results entries are strictly increasing. *)
C5_OnePerMentionInOrder ==
  \A j, k \in 1..Len(results) : j < k => results[j].mention < results[k].mention

\* the first and the third of three mentions are resolved, the second is skipped
C5_Witness ==
  /\ pc = "done"
  /\ Len(medications) = 3
  /\ Len(results) = 2
  /\ results[1].mention = 1
  /\ results[2].mention = 3
  /\ ResultsOf(2) = <<>>

(* C6: a mention that neither pass resolves gets no results entry and exactly
   one SEARCH_FAILED entry, which is the last log entry of the mention and
   carries the first 5 rejection reasons collected for it; a resolved mention
   gets no SEARCH_FAILED entry; every finished mention has exactly one of a
   results entry, a SEARCH_FAILED entry and a PROCESSING_ERROR entry. *)
C6_UnresolvedIsLogged ==
  BetweenMentions =>
    /\ \A i \in Finished :
         LET entries == EntriesOf(i)
             failed == SelectSeq(entries, IsFailedEntry)
             processing == SelectSeq(entries, IsProcessingEntry)
         IN /\ Len(ResultsOf(i)) + Len(failed) + Len(processing) = 1
            /\ Len(failed) = 1 =>
                 /\ IsFailedEntry(entries[Len(entries)])
                 /\ Len(Get(failed[1].rejectedReasons)) <= 5
                 /\ Get(failed[1].rejectedReasons) = Slice(ReasonsOf(i), 5)
    /\ (medIdx > 1 /\ medications[medIdx - 1].nameIsString) =>
         (IsSome(bestResult) <=> ResultsOf(medIdx - 1) # <<>>)
    /\ pc = "done" =>
         Len(results) + Len(SelectSeq(searchLog, IsFailedEntry))
           + Len(SelectSeq(searchLog, IsProcessingEntry)) = Len(medications)

\* a batch with a resolved mention and an unresolved one for which more than
\* 5 rejection reasons were collected
C6_Witness ==
  /\ pc = "done"
  /\ results # <<>>
  /\ \E i \in Finished :
       /\ Len(ReasonsOf(i)) > 5
       /\ \E e \in Range(EntriesOf(i)) :
            IsFailedEntry(e) /\ Len(Get(e.rejectedReasons)) = 5

(* C7: one mention's failure never aborts the batch. When the batch has ended
   against an endpoint that gives the same reply to every query, but fails on
   every query of the mentions in downFor, results holds exactly what each
   other mention with a usable name resolves to alone, in order; a mention in
   downFor has error entries in the log; a mention whose processing throws has
   one PROCESSING_ERROR entry; and every mention has been processed. *)
C7_Alone(i, medication, reply) ==
  LET list == searchMedications(reply).list
      strict == Slice(list, StrictTop)
      strictHit == FirstTrue(AsSeq([k \in 1..Len(strict) |->
                     isAppropriateMatchWithReasons(medication, strict[k]).isMatch],
                     Len(strict)))
      relaxed == Slice(list, RelaxedTop)
      relaxedHit == FirstTrue(AsSeq([k \in 1..Len(relaxed) |->
                      RelaxedAccepts(medication, relaxed[k])], Len(relaxed)))
  IN IF strictHit > 0 THEN <<Details(i, medication, strict[strictHit])>>
     ELSE IF relaxedHit > 0 THEN <<Details(i, medication, relaxed[relaxedHit])>>
     ELSE <<>>

C7_Expected ==
  ConcatAll(AsSeq([i \in 1..Len(medications) |->
      IF i \in collab.downFor \/ ~medications[i].nameIsString THEN <<>>
      ELSE C7_Alone(i, medications[i], collab.first)], Len(medications)))

C7_FailureDoesNotAbort ==
  (pc = "done" /\ collab.switchAt = 0) =>
    /\ medIdx = Len(medications) + 1
    /\ results = C7_Expected
    /\ \A i \in 1..Len(medications) :
         /\ (i \in collab.downFor /\ medications[i].nameIsString) =>
              \E e \in Range(EntriesOf(i)) : e.error.kind = "Search failed"
         /\ ~medications[i].nameIsString =>
              Len(SelectSeq(EntriesOf(i), IsProcessingEntry)) = 1

\* scenario C: three mentions, the endpoint fails on every query of the
\* second, the first and the third are resolved
C7_Witness ==
  /\ pc = "done"
  /\ Len(medications) = 3
  /\ collab.downFor = {2}
  /\ collab.first.kind = "json"
  /\ \A i \in 1..3 : medications[i].nameIsString
  /\ Len(results) = 2
  /\ \E e \in Range(EntriesOf(2)) : e.error.kind = "Search failed"

(* C8: searchMedications reports a failure of the endpoint as an error: a
   non-success HTTP status and a payload without an array in data both make
   it raise; it returns a list only for a payload with an array in data. *)
C8_WellFormed(response) == response.kind = "json" /\ IsArray(response.data)

C8_FailureIsAnError ==
  fnOp = "searchMedications" =>
    (~C8_WellFormed(fnArg) => Get(fnRes).error)

\* the part that holds: a non-success status raises, and an empty array of
\* records gives an empty list
C8_Witness ==
  /\ fnOp = "searchMedications"
  /\ fnArg.kind = "http_error"
  /\ Get(fnRes).error

(* C9: a delay separates every two consecutive calls to the search
   collaborator: whenever a search is about to be sent and a search was sent
   before it in the batch, a delay has elapsed since that earlier search. *)
C9_DelayBetweenCalls ==
  (pc \in {"strict", "relaxed"} /\ calls # <<>>) => delayed

\* the second strict term is about to be searched, after the delay
C9_Witness ==
  /\ pc = "strict"
  /\ termIdx = 2
  /\ calls # <<>>
  /\ delayed

(* C10: at no point of a request are two calls to the search collaborator in
   flight at the same time, in the resolution loop and in the retry with
   the corrected search terms. *)
C10_OneCallInFlight == Len(pending) <= 1

\* the resolution loop alone keeps to one call in flight
C10_Witness ==
  /\ route.phase = "search"
  /\ Len(pending) = 1
  /\ Len(calls) > 1

-----------------------------------------------------------------------------
(* Properties of the order of the searches *)

\* the mentions with a usable name that occur in the batches
NamedMentions == { m \in UNION { Range(b) : b \in Batches } : m.nameIsString }

\* the reply to call number n of the run
ReplyTo(n) == CHOOSE r \in Answers(collab, calls[n].mention, n) : TRUE

\* call number n has been answered
Answered(n) == n <= Len(calls) - Len(pending)

\* position of call number n among the calls made for its mention
PositionOf(n) == Cardinality({ k \in 1..n : calls[k].mention = calls[n].mention })

\* number of calls made for mention i
CallCount(i) == Cardinality({ k \in 1..Len(calls) : calls[k].mention = i })

\* the first element of list that is in the set ok of positions, if any
FirstOf(list, ok) ==
  IF ok = {} THEN None ELSE Some(list[CHOOSE k \in ok : \A j \in ok : k <= j])

\* the generated strict terms of each mention
StrictTermsOf == [ m \in NamedMentions |-> generateSearchTerms(m) ]

\* the first of the top 3 candidates of a reply that passes the strict matcher
FirstStrictOf ==
  [ m \in NamedMentions |-> [ r \in Replies |->
      LET top == Slice(searchMedications(r).list, 3) IN
      FirstOf(top, { k \in 1..Len(top) :
                       isAppropriateMatchWithReasons(m, top[k]).isMatch }) ] ]

\* the part of name before the first occurrence of sep, name if there is none
FirstSegment(name, sep) ==
  IF includes(name, sep) THEN SubSeq(name, 1, indexOf(name, sep)) ELSE name

\* the fallback terms of each mention: bare lower-cased name, first
\* slash-segment, first hyphen-segment, duplicates dropped
FallbackTermsOf ==
  [ m \in NamedMentions |->
      LET name == toLowerCase(m.name) IN
      Unique(<< name, FirstSegment(name, <<"/">>), FirstSegment(name, <<"-">>) >>) ]

\* the first of the top 10 candidates of a reply that passes the relaxed checks
FirstRelaxedOf ==
  [ m \in NamedMentions |-> [ r \in Replies |->
      LET top == Slice(searchMedications(r).list, 10) IN
      FirstOf(top, { k \in 1..Len(top) : RelaxedAccepts(m, top[k]) }) ] ]

C11_IsScenarioA ==
  /\ medications = <<M_met>>
  /\ collab = Script(Data(<<I_metTabs>>), 0, Data(<<I_metTabs>>), {})

(* C11: the strict pass stops at the first accept. The strict calls of a
   mention carry the generated terms in generated order; when the reply to a
   strict call has, among its top 3 candidates in rank order, one that passes
   the strict matcher, no further call is made for the mention and the first
   such candidate is what results holds for the mention. In scenario A the
   log has exactly one entry, found, with no rejection reasons. *)
C11_StopsAtFirstAccept ==
  /\ \A n \in 1..Len(calls) :
       LET i == calls[n].mention
           m == medications[calls[n].mention]
           pos == PositionOf(n)
       IN pos <= Len(StrictTermsOf[m]) =>
            /\ calls[n].term = StrictTermsOf[m][pos]
            /\ (Answered(n) /\ IsSome(FirstStrictOf[m][ReplyTo(n)])) =>
                 /\ \A k \in (n + 1)..Len(calls) : calls[k].mention # i
                 /\ i \in Finished =>
                      ResultsOf(i) = <<Details(i, m, Get(FirstStrictOf[m][ReplyTo(n)]))>>
  /\ (C11_IsScenarioA /\ pc = "done") =>
       /\ Len(searchLog) = 1
       /\ searchLog[1].found
       /\ searchLog[1].searchTerm = StrictTermsOf[M_met][1]
       /\ searchLog[1].rejectedReasons = Some(<<>>)

\* scenario A has run to its end: one call, one results entry
C11_Witness ==
  /\ C11_IsScenarioA
  /\ pc = "done"
  /\ Len(calls) = 1
  /\ Len(results) = 1
  /\ results[1].setId = "met-tabs"

(* C12: the relaxed search is a fallback only. A call beyond the strict terms
   of a mention is made only after every strict term was searched without a
   strict accept, and a finished mention whose strict searches all ended
   without accept has such a call; these calls carry the de-duplicated
   fallback terms in the order bare name, first slash-segment, first
   hyphen-segment; the first candidate of a reply that passes the relaxed
   checks ends the calls of the mention and is what results holds. *)
C12_RelaxedIsFallback ==
  /\ \A n \in 1..Len(calls) :
       LET i == calls[n].mention
           m == medications[calls[n].mention]
           pos == PositionOf(n)
           nStrict == Len(StrictTermsOf[medications[calls[n].mention]])
       IN pos > nStrict =>
            /\ pos - nStrict <= Len(FallbackTermsOf[m])
            /\ calls[n].term = FallbackTermsOf[m][pos - nStrict]
            /\ \A k \in 1..(n - 1) :
                 (calls[k].mention = i /\ PositionOf(k) <= nStrict)
                   => ~IsSome(FirstStrictOf[m][ReplyTo(k)])
            /\ (Answered(n) /\ IsSome(FirstRelaxedOf[m][ReplyTo(n)])) =>
                 /\ \A k \in (n + 1)..Len(calls) : calls[k].mention # i
                 /\ i \in Finished =>
                      ResultsOf(i) = <<Details(i, m, Get(FirstRelaxedOf[m][ReplyTo(n)]))>>
  /\ \A i \in Finished :
       (/\ medications[i].nameIsString
        /\ \A k \in 1..Len(calls) :
             calls[k].mention = i => ~IsSome(FirstStrictOf[medications[i]][ReplyTo(k)]))
         => CallCount(i) > Len(StrictTermsOf[medications[i]])

\* a slash-named mention for which both fallback terms were searched, after
\* a mention that the relaxed search resolved
C12_Witness ==
  /\ pc = "done"
  /\ \E i \in Finished :
       /\ medications[i].nameIsString
       /\ CallCount(i) = Len(StrictTermsOf[medications[i]]) + 2
       /\ calls[Len(calls)].term # toLowerCase(medications[i].name)
  /\ \E e \in Range(searchLog) : e.found /\ IsSearchEntry(e)
                                  /\ EndsWith(e.searchTerm, S_relaxedMark)

-----------------------------------------------------------------------------
(* Properties of the matchers *)

\* the strict matcher has been applied to fnArg
StrictApplied == fnOp = "isAppropriateMatchWithReasons" /\ IsSome(fnRes)

\* the relaxed checks have been applied to fnArg
RelaxedApplied == fnOp = "tryRelaxedSearch" /\ IsSome(fnRes)

\* text contains one of the keywords as a substring, case-insensitively
ContainsAny(text, keywords) ==
  \E k \in 1..Len(keywords) : includes(toLowerCase(text), keywords[k])

C14_Keywords ==
  << <<"z","y","v","e","t">>, <<"a","n","i","m","a","l"," ","h","e","a","l","t","h">>, <<"v","e","t","e","r","i","n","a","r","y">>, <<"p","e","t">>, <<"c","a","n","i","n","e">>, <<"f","e","l","i","n","e">>,
     <<"b","o","v","i","n","e">>, <<"e","q","u","i","n","e">>, <<"p","o","r","c","i","n","e">>, <<"a","v","i","a","n">>, <<"a","n","i","m","a","l">>, <<"v","e","t">> >>

\* a record whose title or labeler contains a veterinary keyword
C14_IsVeterinaryRecord(r) ==
  ContainsAny(r.title, C14_Keywords) \/ ContainsAny(r.labeler, C14_Keywords)

\* the numbers of the rules that candidate c violates for mention m
C13_Violated(m, c) ==
  LET title == toLowerCase(c.title)
      inhaled == toLowerCase(m.deliveryMethod) \in { <<"i","n","h","a","l","e","r">>, <<"h","a","n","d","i","h","a","l","e","r">> }
  IN
  { k \in 1..5 :
      \/ k = 1 /\ \A p \in Range(generateCombinationPermutations(toLowerCase(m.name))) :
                    ~includes(title, toLowerCase(p))
      \/ k = 2 /\ C14_IsVeterinaryRecord(c)
      \/ k = 3 /\ inhaled
               /\ \/ includes(title, <<"s","o","l","u","t","i","o","n">>) /\ ~includes(title, <<"i","n","h","a","l","a","t","i","o","n">>)
                  \/ includes(title, <<"t","a","b","l","e","t">>)
                  \/ includes(title, <<"c","a","p","s","u","l","e">>)
      \/ k = 4 /\ toLowerCase(m.name) = <<"t","i","o","t","r","o","p","i","u","m">>
               /\ ~includes(toLowerCase(m.fullContext), <<"o","l","o","d","a","t","e","r","o","l">>)
               /\ includes(title, <<"o","l","o","d","a","t","e","r","o","l">>)
      \/ k = 5 /\ \/ m.formulation = "ER" /\ HasWholeWord(C2_IrWords, title)
                  \/ m.formulation = "IR" /\ HasWholeWord(C2_ErWords, title) }

\* the rule that a verdict of the strict matcher cites, 0 for acceptance
C13_RuleOf(verdict) ==
  CASE verdict.reason = "appropriate match" -> 0
    [] verdict.reason = "doesn't contain any component of the name" -> 1
    [] verdict.reason = "veterinary/animal health product" -> 2
    [] verdict.reason = "solution not appropriate for inhaler delivery" -> 3
    [] verdict.reason = "tablet/capsule not appropriate for inhaler delivery" -> 3
    [] verdict.reason = "contains olodaterol but patient info doesn't mention it" -> 4
    [] verdict.reason = "explicitly states immediate release but patient needs ER" -> 5
    [] verdict.reason = "extended release but patient needs IR" -> 5
    [] OTHER -> 6

(* C13: the strict matcher reports the lowest-numbered rule that the
   candidate violates, in the order (1) no component of the name in the title,
   (2) veterinary keyword in title or labeler, (3) delivery mismatch for
   inhaler and handihaler, (4) unrequested olodaterol for tiotropium,
   (5) formulation conflict; a candidate that violates none is accepted with
   the reason "appropriate match". The formulation conflict of rule 5 is
   taken with the words that the claim's lexicon and the matcher share. *)
C13_LowestRuleIsReported ==
  StrictApplied =>
    \E v \in { C13_Violated(fnArg.medication, fnArg.result) } :
      IF v = {}
      THEN Get(fnRes) = [isMatch |-> TRUE, reason |-> "appropriate match"]
      ELSE /\ ~Get(fnRes).isMatch
           /\ C13_RuleOf(Get(fnRes)) \in v
           /\ \A k \in v : C13_RuleOf(Get(fnRes)) <= k

\* a candidate that violates all of the rules 2 to 5 has been judged
C13_Witness ==
  /\ StrictApplied
  /\ {2, 3, 4, 5} \subseteq C13_Violated(fnArg.medication, fnArg.result)
  /\ C13_RuleOf(Get(fnRes)) = 2

(* C14: no veterinary product is ever accepted. The strict matcher rejects
   every candidate whose title or labeler contains one of the 12 veterinary
   keywords, whatever its other attributes; the relaxed checks reject it too;
   no entry of results has such a title or labeler. *)
C14_NoVeterinaryAccepted ==
  /\ (StrictApplied /\ C14_IsVeterinaryRecord(fnArg.result)) => ~Get(fnRes).isMatch
  /\ (RelaxedApplied /\ C14_IsVeterinaryRecord(fnArg.result)) => ~Get(fnRes)
  /\ \A k \in 1..Len(results) : ~C14_IsVeterinaryRecord(results[k])

\* a candidate that only its labeler makes veterinary has been rejected by
\* the strict matcher
C14_Witness ==
  /\ StrictApplied
  /\ C13_Violated(fnArg.medication, fnArg.result) = {2}
  /\ ~ContainsAny(fnArg.result.title, C14_Keywords)
  /\ ~Get(fnRes).isMatch

C15_ErLexicon ==
  { <<"e","x","t","e","n","d","e","d"," ","r","e","l","e","a","s","e">>, <<"e","x","t","e","n","d","e","d","-","r","e","l","e","a","s","e">>, <<"e","r">>, <<"x","r">>, <<"x","l">>, <<"l","a">>,
    <<"s","u","s","t","a","i","n","e","d"," ","r","e","l","e","a","s","e">>, <<"s","u","s","t","a","i","n","e","d","-","r","e","l","e","a","s","e">>, <<"s","r">>, <<"l","o","n","g","-","a","c","t","i","n","g">> }

(* C15: the strict matcher rejects an IR mention against every title that
   contains a word of the ER lexicon (extended release, extended-release, er,
   xr, xl, la, sustained release, sustained-release, sr, long-acting) as a
   whole word, case-insensitively. *)
C15_IrRejectsErLexicon ==
  (/\ StrictApplied
   /\ fnArg.medication.formulation = "IR"
   /\ HasWholeWord(C15_ErLexicon, toLowerCase(fnArg.result.title)))
    => ~Get(fnRes).isMatch

\* an IR mention has been judged against a title with "long-acting"
C15_Witness ==
  /\ StrictApplied
  /\ fnArg.medication.formulation = "IR"
  /\ HasWholeWord({ <<"l","o","n","g","-","a","c","t","i","n","g">> }, toLowerCase(fnArg.result.title))

-----------------------------------------------------------------------------
(* Properties of the classifier and of the term generator *)

C16_Words ==
  { <<"x","r">>, <<"e","r">>, <<"x","l">>, <<"e","x","t","e","n","d","e","d"," ","r","e","l","e","a","s","e">>, <<"e","x","t","e","n","d","e","d","-","r","e","l","e","a","s","e">>,
    <<"s","u","s","t","a","i","n","e","d"," ","r","e","l","e","a","s","e">>, <<"s","r">>, <<"l","a">> }

\* element i of the LLM's list has a context with one of the words
C16_IsExplicit(i) ==
  /\ IsSome(Get(fnArg.llm)[i].fullContext)
  /\ HasWholeWord(C16_Words, Get(Get(fnArg.llm)[i].fullContext))

\* isExplicitlyER is true of every context with one of the words
C16_TestIsTrue ==
  fnOp = "extractMedicationsFromText" =>
    \A i \in 1..Len(Get(fnRes)) :
      C16_IsExplicit(i) => isExplicitlyER(Get(fnArg.llm)[i].fullContext)

(* C16: a context that contains xr, er, xl, extended release,
   extended-release, sustained release, sr or la as a whole word is classified
   ER: isExplicitlyER is true of it and the mention that
   extractMedicationsFromText returns for it has formulation ER. *)
C16_ExplicitIsER ==
  /\ C16_TestIsTrue
  /\ fnOp = "extractMedicationsFromText" =>
       \A i \in 1..Len(Get(fnRes)) :
         C16_IsExplicit(i) => Get(fnRes)[i].formulation = "ER"

\* the LLM reported IR for a context with one of the words
C16_Witness ==
  /\ fnOp = "extractMedicationsFromText"
  /\ \E i \in 1..Len(Get(fnRes)) :
       /\ C16_IsExplicit(i)
       /\ Get(fnArg.llm)[i].formulation = "IR"
       /\ isExplicitlyER(Get(fnArg.llm)[i].fullContext)

\* the name has been expanded
NameExpanded == fnOp = "generateCombinationPermutations" /\ IsSome(fnRes)

\* the parts of name between the occurrences of sep, trimmed
PartsOf(name, sep) == TrimAll(split(name, sep))

HasAndSeparator(name) == includes(name, <<" ","a","n","d"," ">>) \/ includes(name, <<" ","&"," ">>)

\* the separator of a name joined by " and " or " & "
AndSeparatorOf(name) == IF includes(name, <<" ","a","n","d"," ">>) THEN <<" ","a","n","d"," ">> ELSE <<" ","&"," ">>

\* the two-part expansion of the claims C17 and C18
TwoPartExpansion(name, a, b) ==
  << name, a \o <<"/">> \o b, b \o <<"/">> \o a, a \o <<" ">> \o b, b \o <<" ">> \o a,
     a \o <<"-">> \o b, b \o <<"-">> \o a, a, b >>

\* C17 for the name that was expanded
C17_HoldsOfName ==
  \E parts \in { PartsOf(fnArg.name, <<"/">>) } :
    /\ Len(parts) = 2 =>
         Get(fnRes) = Unique(TwoPartExpansion(fnArg.name, parts[1], parts[2]))
    /\ (Len(parts) > 2 \/ (Len(parts) = 1 /\ ~HasAndSeparator(fnArg.name))) =>
         Get(fnRes) = << fnArg.name >>

(* C17: for a name "A/B" with exactly two parts
   generateCombinationPermutations returns, without duplicates and in the
   order of first occurrence, the name, A/B, B/A, "A B", "B A", A-B, B-A, A,
   B; for a name with no separator or with more than two slash-separated
   components it returns the name alone. *)
C17_SlashExpansion == NameExpanded => C17_HoldsOfName

\* C17 for the names that have no " and " and no " & "
C17_SlashOnlyNames ==
  (NameExpanded /\ ~HasAndSeparator(fnArg.name)) => C17_HoldsOfName

\* a name with a slash and with " and " has been expanded
C17_Witness ==
  /\ NameExpanded
  /\ includes(fnArg.name, <<"/">>)
  /\ HasAndSeparator(fnArg.name)

(* C18: for a name joined by " and " or " & " with exactly two parts A and B
   the result of generateCombinationPermutations contains the name, A/B, B/A,
   "A B", "B A", A-B, B-A, A and B. *)
C18_AndExpansion ==
  (NameExpanded /\ HasAndSeparator(fnArg.name)) =>
    \E parts \in { PartsOf(fnArg.name, AndSeparatorOf(fnArg.name)) } :
      Len(parts) = 2 =>
        Range(TwoPartExpansion(fnArg.name, parts[1], parts[2])) \subseteq Range(Get(fnRes))

\* C18 without the two hyphen forms
C18_WithoutHyphenForms ==
  (NameExpanded /\ HasAndSeparator(fnArg.name)) =>
    \E parts \in { PartsOf(fnArg.name, AndSeparatorOf(fnArg.name)) } :
      Len(parts) = 2 =>
        \A e \in Range(TwoPartExpansion(fnArg.name, parts[1], parts[2])) :
          e \in Range(Get(fnRes))
          \/ e \in { parts[1] \o <<"-">> \o parts[2], parts[2] \o <<"-">> \o parts[1] }

\* a two-part name joined by " & " has been expanded
C18_Witness ==
  /\ NameExpanded
  /\ includes(fnArg.name, <<" ","&"," ">>)
  /\ Len(PartsOf(fnArg.name, <<" ","&"," ">>)) = 2

\* the terms have been generated for the mention fnArg
TermsGenerated == fnOp = "generateSearchTerms" /\ IsSome(fnRes)

C19_ErSuffixes ==
  << <<" ","e","x","t","e","n","d","e","d"," ","r","e","l","e","a","s","e">>, <<" ","e","r">>, <<" ","x","l">>, <<" ","x","r">>, <<" ","s","u","s","t","a","i","n","e","d"," ","r","e","l","e","a","s","e">>, <<" ","s","r">> >>

C19_IrSuffixes == << <<" ","i","m","m","e","d","i","a","t","e"," ","r","e","l","e","a","s","e">>, <<" ","i","r">> >>

\* the suffixes that follow the delivery method
C19_DeliverySuffixes(formulation) ==
  IF formulation = "ER" THEN SubSeq(C19_ErSuffixes, 1, 4) ELSE C19_IrSuffixes

C19_Aliases(delivery) ==
  IF delivery = <<"i","n","h","a","l","e","r">>
  THEN << <<" ","i","n","h","a","l","a","t","i","o","n">>, <<" ","m","e","t","e","r","e","d"," ","d","o","s","e"," ","i","n","h","a","l","e","r">>, <<" ","M","D","I">> >>
  ELSE IF delivery = <<"h","a","n","d","i","h","a","l","e","r">>
       THEN << <<" ","d","r","y"," ","p","o","w","d","e","r"," ","i","n","h","a","l","e","r">>, <<" ","D","P","I">> >>
       ELSE <<>>

\* each element of suffixes appended to stem
C19_Each(stem, suffixes) ==
  AsSeq([k \in 1..Len(suffixes) |-> stem \o suffixes[k]], Len(suffixes))

\* the terms of one name variant, from the most to the least specific
C19_TermsOfVariant(variant, delivery, formulation, respimat) ==
  (IF delivery # <<>>
   THEN C19_Each(variant \o <<" ">> \o delivery, C19_DeliverySuffixes(formulation))
        \o << variant \o <<" ">> \o delivery >>
        \o C19_Each(variant, C19_Aliases(delivery))
   ELSE <<>>)
  \o C19_Each(variant, IF formulation = "ER" THEN C19_ErSuffixes ELSE C19_IrSuffixes)
  \o (IF respimat THEN << variant \o <<" ","r","e","s","p","i","m","a","t">> >> ELSE <<>>)
  \o << variant >>

\* the terms of all the variants of the name of mention m, one after another
C19_AllTerms(m) ==
  LET variants == generateCombinationPermutations(toLowerCase(m.name)) IN
  ConcatAll(AsSeq([k \in 1..Len(variants) |->
              C19_TermsOfVariant(variants[k], toLowerCase(m.deliveryMethod), m.formulation,
                                 includes(toLowerCase(m.fullContext), <<"r","e","s","p","i","m","a","t">>))],
            Len(variants)))

\* the position of the first occurrence of x in list
C19_FirstIndex(list, x) ==
  CHOOSE i \in 1..Len(list) : list[i] = x /\ \A j \in 1..(i - 1) : list[j] # x

\* the terms that append the suffixes to a variant of the name of mention m,
\* with or without the delivery method
C19_Suffixed(m, suffixes) ==
  LET variants == generateCombinationPermutations(toLowerCase(m.name)) IN
  { variants[k] \o suffixes[s] : k \in 1..Len(variants), s \in 1..Len(suffixes) }
  \cup { variants[k] \o <<" ">> \o toLowerCase(m.deliveryMethod) \o suffixes[s] :
           k \in 1..Len(variants), s \in 1..Len(suffixes) }

(* C19: generateSearchTerms returns the terms of the name variants, variant
   after variant in expansion order and for each variant from the most to the
   least specific (delivery with formulation suffix, name with delivery,
   aliases of inhaler and handihaler, formulation suffixes, respimat, bare
   name), with no string twice: a string that occurs again is dropped and its
   first position is kept. No term of an IR mention is a variant followed by
   an ER suffix and no term of an ER mention is a variant followed by an IR
   suffix. *)
C19_OrderedAndDuplicateFree ==
  TermsGenerated =>
    \E all \in { C19_AllTerms(fnArg) } : \E terms \in { Get(fnRes) } :
      /\ Range(terms) = Range(all)
      /\ \A p \in 1..Len(terms) : \A q \in 1..Len(terms) : terms[p] = terms[q] => p = q
      /\ \A p \in 1..(Len(terms) - 1) :
           C19_FirstIndex(all, terms[p]) < C19_FirstIndex(all, terms[p + 1])
      /\ fnArg.formulation = "IR" => Range(terms) \cap C19_Suffixed(fnArg, C19_ErSuffixes) = {}
      /\ fnArg.formulation = "ER" => Range(terms) \cap C19_Suffixed(fnArg, C19_IrSuffixes) = {}

\* a combination mention with a delivery method for which some strings
\* occurred again and were dropped
C19_Witness ==
  /\ TermsGenerated
  /\ fnArg.deliveryMethod # <<>>
  /\ Len(generateCombinationPermutations(toLowerCase(fnArg.name))) > 1
  /\ Len(Get(fnRes)) < Len(C19_AllTerms(fnArg))

\* no upper-case letter, no leading, trailing or repeated whitespace
C20_IsNormalized(term) ==
  /\ toLowerCase(term) = term
  /\ trim(term) = term
  /\ \A i \in 1..(Len(term) - 1) : ~(IsSpace(term[i]) /\ IsSpace(term[i + 1]))

(* C20: every term that generateSearchTerms returns is lower-cased and
   whitespace-normalized, also for the delivery methods inhaler and
   handihaler and for names and delivery methods with extra whitespace. *)
C20_TermsNormalized ==
  TermsGenerated => \A k \in 1..Len(Get(fnRes)) : C20_IsNormalized(Get(fnRes)[k])

\* C20 for the mentions whose name and delivery method are normalized and
\* whose delivery method is neither inhaler nor handihaler
C20_PlainMentions ==
  (/\ TermsGenerated
   /\ C20_IsNormalized(toLowerCase(fnArg.name))
   /\ C20_IsNormalized(toLowerCase(fnArg.deliveryMethod))
   /\ toLowerCase(fnArg.deliveryMethod) \notin { <<"i","n","h","a","l","e","r">>, <<"h","a","n","d","i","h","a","l","e","r">> })
    => \A k \in 1..Len(Get(fnRes)) : C20_IsNormalized(Get(fnRes)[k])

\* the terms of a mention with delivery method inhaler have been generated
C20_Witness ==
  /\ TermsGenerated
  /\ fnArg.deliveryMethod = <<"i","n","h","a","l","e","r">>

-----------------------------------------------------------------------------
(* Properties of the relaxed checks, of the runs and of the routes *)

\* the candidate passes the veterinary and the formulation filter for mention m
C21_PassesFilters(m, c) ==
  /\ ~C14_IsVeterinaryRecord(c)
  /\ ~(m.formulation = "IR" /\ HasWholeWord(C2_ErWords, toLowerCase(c.title)))
  /\ ~(m.formulation = "ER" /\ HasWholeWord(C2_IrWords, toLowerCase(c.title)))

\* the relaxed checks accept every candidate that passes the filters and whose
\* lower-cased title contains one of the segments
C21_AcceptsOn(segments) ==
  (/\ RelaxedApplied
   /\ C21_PassesFilters(fnArg.medication, fnArg.result)
   /\ \E s \in segments : includes(toLowerCase(fnArg.result.title), s))
    => Get(fnRes)

(* C21: the relaxed checks accept a candidate that passes the veterinary and
   the formulation filter whenever its lower-cased title contains the
   lower-cased name of the mention, or the first slash-delimited segment of
   the name, or its first hyphen-delimited segment. *)
C21_RelaxedNameMatch ==
  C21_AcceptsOn({ toLowerCase(fnArg.medication.name),
                  FirstSegment(toLowerCase(fnArg.medication.name), <<"/">>),
                  FirstSegment(toLowerCase(fnArg.medication.name), <<"-">>) })

\* C21 without the hyphen-delimited segment
C21_NameOrSlashSegment ==
  C21_AcceptsOn({ toLowerCase(fnArg.medication.name),
                  FirstSegment(toLowerCase(fnArg.medication.name), <<"/">>) })

\* the relaxed checks have been applied for a hyphenated name to a title that
\* has the first hyphen segment but not the name
C21_Witness ==
  /\ RelaxedApplied
  /\ includes(fnArg.medication.name, <<"-">>)
  /\ C21_PassesFilters(fnArg.medication, fnArg.result)
  /\ includes(toLowerCase(fnArg.result.title),
              FirstSegment(toLowerCase(fnArg.medication.name), <<"-">>))
  /\ ~includes(toLowerCase(fnArg.result.title), toLowerCase(fnArg.medication.name))

\* the second run of searchMultipleMedications has returned
SecondRunDone == fnOp = "searchMultipleMedications" /\ pc = "done"

\* the setIds of a results list, in order
SetIdsOf(list) == AsSeq([k \in 1..Len(list) |-> list[k].setId], Len(list))

(* C22: resolution is deterministic. A second run of searchMultipleMedications
   on the same mentions against the same stub returns the same results (the
   same setIds in the same order) and the same log (the same terms in the same
   order with the same decisions), and sends the stub the same queries:
   nothing of the first run is carried into the second. *)
C22_SecondRunIsTheSame ==
  SecondRunDone =>
    /\ SetIdsOf(results) = SetIdsOf(Get(fnRes).results)
    /\ results = Get(fnRes).results
    /\ searchLog = Get(fnRes).searchLog
    /\ calls = Get(fnRes).calls

\* a second run of three mentions, with rejections, an accept and a mention
\* left unresolved, has returned
C22_Witness ==
  /\ SecondRunDone
  /\ Len(medications) = 3
  /\ Len(results) \in 1..2
  /\ \E e \in Range(searchLog) : IsSearchEntry(e) /\ ~e.found
  /\ \E e \in Range(searchLog) : IsFailedEntry(e)

\* validateDosageAvailability has been applied to fnArg
DosageApplied == fnOp = "validateDosageAvailability" /\ IsSome(fnRes)

(* C23: the dosage-availability correction keeps the IR default.
   validateDosageAvailability returns formulation ER only for a medication
   whose formulation is ER already, for every dosage string and every list of
   search results. *)
C23_ErOnlyFromEr ==
  DosageApplied =>
    (Get(fnRes).formulation = "ER" => fnArg.medication.formulation = "ER")

\* an IR medication has been checked against results that have its dosage
\* only with an ER word in the title
C23_Witness ==
  /\ DosageApplied
  /\ fnArg.medication.formulation = "IR"
  /\ fnArg.medication.dosage = <<"5","0","0","m","g">>
  /\ Len(fnArg.searchResults) = 1
  /\ HasWholeWord({ <<"x","r">> }, toLowerCase(fnArg.searchResults[1].title))

\* the replies for which searchMedications raises an error
ErrorReplies == { r \in Replies : searchMedications(r).error }

\* the term of the call that follows the call at position pos of mention m
TermAfter(m, pos) ==
  IF pos < Len(StrictTermsOf[m]) THEN StrictTermsOf[m][pos + 1]
  ELSE FallbackTermsOf[m][1]

(* C24: a collaborator error on one strict term does not end the resolution
   of the mention. When the call for a strict term raises an error, exactly
   one log entry is appended for that term, with found = false and an error
   text; the next call of the mention carries the next strict term, or, after
   the last strict term, the first term of the relaxed search. *)
C24_ErrorDoesNotEndMention ==
  \A n \in 1..Len(calls) :
    LET i == calls[n].mention
        m == medications[calls[n].mention]
        pos == PositionOf(n)
    IN (/\ pos <= Len(StrictTermsOf[m])
        /\ Answered(n)
        /\ ReplyTo(n) \in ErrorReplies) =>
         \E entries \in { SelectSeq(EntriesOf(i), IsSearchEntry) } :
           /\ Len(entries) >= pos
           /\ entries[pos].searchTerm = calls[n].term
           /\ ~entries[pos].found
           /\ entries[pos].error # NoError
           /\ Cardinality({ k \in 1..Len(entries) :
                              entries[k].searchTerm = calls[n].term }) = 1
           /\ i \in Finished =>
                \E k \in (n + 1)..Len(calls) :
                  /\ calls[k].mention = i
                  /\ PositionOf(k) = pos + 1
                  /\ calls[k].term = TermAfter(m, pos)

\* every strict search of a mention failed and the relaxed search was sent
C24_Witness ==
  /\ pc = "done"
  /\ medications = <<M_met>>
  /\ \A n \in 1..Len(calls) : ReplyTo(n) \in ErrorReplies
  /\ CallCount(1) = Len(StrictTermsOf[M_met]) + 1
  /\ Len(SelectSeq(searchLog, IsSearchEntry)) = Len(StrictTermsOf[M_met])

\* the retry with the corrected term of position i found a candidate
RetryFound(i) ==
  /\ i <= Len(route.retryResults)
  /\ IsSome(route.retryResults[i])
  /\ Get(route.retryResults[i]).found

\* the retry pass has replaced dailyMedResults
RetryMerged == route.phase = "assess" /\ \E i \in 1..Len(medications) : RetryFound(i)

\* the first pass left no mention unresolved before a resolved one
C25_FirstPassAligned == \A k \in 1..Len(results) : results[k].mention = k

\* the one-result-per-mention invariant after the retry merge
C25_MergeKeepsInvariant ==
  /\ \A i \in 1..Len(medications) :
       Cardinality({ k \in 1..Len(route.dailyMedResults) :
                       route.dailyMedResults[k].mention = i }) <= 1
  /\ \A i \in 1..Len(medications) :
       (ResultsOf(i) # <<>> /\ ~RetryFound(i)) =>
          \E k \in 1..Len(route.dailyMedResults) : route.dailyMedResults[k] = ResultsOf(i)[1]
  /\ \A i \in 1..Len(medications) :
       \E kept \in { ImprovedResult(i, RetryResultAt(route.retryResults, i), results) } :
         IsSome(kept) => Get(kept).mention = i

(* C25: the retry with the corrected search terms keeps the
   one-result-per-mention invariant. After the merge dailyMedResults has at
   most one entry per mention, a mention that the first pass resolved and the
   retry did not improve keeps its first-pass result, and no result is stored
   under the position of another mention, also when the first pass left an
   earlier mention unresolved. *)
C25_OnePerMentionAfterRetry == RetryMerged => C25_MergeKeepsInvariant

\* C25 for the requests whose first pass left no mention unresolved before a
\* resolved one
C25_AlignedFirstPass == (RetryMerged /\ C25_FirstPassAligned) => C25_MergeKeepsInvariant

\* the retry has been merged after a first pass that left the first mention
\* unresolved and resolved the second
C25_Witness ==
  /\ RetryMerged
  /\ Len(medications) = 2
  /\ ResultsOf(1) = <<>>
  /\ ResultsOf(2) # <<>>


-----------------------------------------------------------------------------
\* the dosage loop of /api/generate-games has run
DosageLoopDone == route.phase = "dosage"

\* the loop checked position i: a dosage was extracted and dailyMedResults[i] exists
C26_Checked(i) ==
  /\ route.extracted[i].dosage # <<>>
  /\ i <= Len(route.dailyMedResults)

\* dailyMedResults[i] is the candidate resolved for mention i
C26_Aligned ==
  \A i \in 1..Len(route.extracted) :
    C26_Checked(i) => route.dailyMedResults[i].mention = i

\* a mention extracted as IR is still IR when the loop ends
C26_IrStaysIr ==
  \A i \in 1..Len(route.extracted) :
    route.extracted[i].formulation = "IR" => medications[i].formulation = "IR"

\* C26: in the dosage loop of /api/generate-games every position the loop
\* checks is validated against the candidate resolved for that same mention,
\* and no mention extracted as IR ends the loop as ER, for every batch
C26_DosageLoopAligned ==
  DosageLoopDone => (C26_Aligned /\ C26_IrStaysIr)

\* the same for batches where no unresolved mention precedes a resolved one
C26_AlignedBatches ==
  (DosageLoopDone /\ \A k \in 1..Len(results) : results[k].mention = k)
    => (C26_Aligned /\ C26_IrStaysIr)

\* the loop checked a position of a batch in which an unresolved mention
\* precedes a resolved one
C26_Witness ==
  /\ DosageLoopDone
  /\ \E i \in 1..Len(route.extracted) : C26_Checked(i)
  /\ \E j \in 1..Len(route.extracted) :
       /\ \A k \in 1..Len(results) : results[k].mention # j
       /\ \E k \in 1..Len(results) : results[k].mention > j

-----------------------------------------------------------------------------
\* the non-empty forms of a name that the checks compare with the title: the
\* permutations of the lower-cased name, the name and its first slash segment
C27_NameVariants(name) ==
  LET perms == generateCombinationPermutations(toLowerCase(name)) IN
  ({ perms[k] : k \in 1..Len(perms) }
     \cup { toLowerCase(name), FirstSegment(toLowerCase(name), <<"/">>) }) \ { <<>> }

\* no permutation of the name is the empty string
C27_NoEmptyPermutation(name) ==
  LET perms == generateCombinationPermutations(toLowerCase(name)) IN
  \A k \in 1..Len(perms) : perms[k] # <<>>

\* the strict or the relaxed checks have accepted the candidate of fnArg
C27_Accepted ==
  \/ StrictApplied /\ Get(fnRes).isMatch
  \/ RelaxedApplied /\ Get(fnRes)

C27_TitleHasVariant ==
  \E v \in C27_NameVariants(fnArg.medication.name) :
    includes(toLowerCase(fnArg.result.title), v)

\* C27: the strict and the relaxed checks accept a candidate only if its title
\* contains a non-empty variant of the name, and the permutations of the name
\* never include the empty string, also for an empty name and for a name that
\* starts or ends with a slash
C27_AcceptNeedsName ==
  (StrictApplied \/ RelaxedApplied) =>
    /\ C27_NoEmptyPermutation(fnArg.medication.name)
    /\ C27_Accepted => C27_TitleHasVariant

\* names that are not empty and neither start nor end with a slash
C27_IsWellFormed(name) ==
  /\ name # <<>>
  /\ name[1] # "/"
  /\ name[Len(name)] # "/"

\* the same for well-formed names only
C27_WellFormedNames ==
  ((StrictApplied \/ RelaxedApplied) /\ C27_IsWellFormed(fnArg.medication.name)) =>
    /\ C27_NoEmptyPermutation(fnArg.medication.name)
    /\ C27_Accepted => C27_TitleHasVariant

\* the checks were applied for a name that ends with a slash and a title
\* without the part before the slash
C27_Witness ==
  /\ StrictApplied \/ RelaxedApplied
  /\ fnArg.medication.name = <<"m","e","t","f","o","r","m","i","n","/">>
  /\ ~includes(toLowerCase(fnArg.result.title), <<"m","e","t","f","o","r","m","i","n">>)

-----------------------------------------------------------------------------
\* the last searchLog entry of mention i
C28_LastEntryOf(i) ==
  searchLog[CHOOSE k \in 1..Len(searchLog) :
              /\ searchLog[k].mention = i
              /\ \A j \in (k + 1)..Len(searchLog) : searchLog[j].mention # i]

\* the result r was accepted by the strict pass: the last entry of its mention
\* is the entry of a strict term (it carries rejectedReasons)
C28_StrictAccept(r) ==
  /\ \E k \in 1..Len(searchLog) : searchLog[k].mention = r.mention
  /\ C28_LastEntryOf(r.mention).found
  /\ IsSome(C28_LastEntryOf(r.mention).rejectedReasons)

\* the candidates the strict pass checked in the last call made for mention i
C28_CheckedFor(i) ==
  LET n == CHOOSE k \in 1..Len(calls) :
             calls[k].mention = i /\ \A j \in (k + 1)..Len(calls) : calls[j].mention # i
  IN Slice(searchMedications(ReplyTo(n)).list, StrictTop)

\* rank of the first checked candidate that the strict matcher accepts
C28_RankOfAccepted(i) ==
  LET checked == C28_CheckedFor(i) IN
  CHOOSE h \in 1..Len(checked) :
    /\ isAppropriateMatchWithReasons(medications[i], checked[h]).isMatch
    /\ \A k \in 1..(h - 1) : ~isAppropriateMatchWithReasons(medications[i], checked[k]).isMatch

\* resultTitle of the accepting entry is the title of the accepted candidate
C28_TitleIsAccepted(r) ==
  C28_LastEntryOf(r.mention).resultTitle = Some(r.title)

\* rejectedReasons of the accepting entry are the higher-ranked candidates
C28_ReasonsAreHigherRanked(r) ==
  LET checked == C28_CheckedFor(r.mention)
      h == C28_RankOfAccepted(r.mention)
      reasons == Get(C28_LastEntryOf(r.mention).rejectedReasons)
  IN /\ Len(reasons) = h - 1
     /\ \A k \in 1..(h - 1) :
          /\ reasons[k].title = checked[k].title
          /\ reasons[k].reason = isAppropriateMatchWithReasons(medications[r.mention], checked[k]).reason

\* C28: in the searchLog entry of the strict term that led to an accept,
\* resultTitle is the title of the accepted candidate, also when that is the
\* second or third candidate, and rejectedReasons lists exactly the
\* higher-ranked rejected candidates
C28_LogNamesAccepted ==
  \A x \in 1..Len(results) :
    C28_StrictAccept(results[x]) =>
      /\ C28_TitleIsAccepted(results[x])
      /\ C28_ReasonsAreHigherRanked(results[x])

\* resultTitle is right when the accepted candidate is ranked first, and
\* rejectedReasons is right at every rank
C28_FirstRankOnly ==
  \A x \in 1..Len(results) :
    C28_StrictAccept(results[x]) =>
      /\ C28_RankOfAccepted(results[x].mention) = 1 => C28_TitleIsAccepted(results[x])
      /\ C28_ReasonsAreHigherRanked(results[x])

\* the strict pass accepted a candidate that was not ranked first
C28_Witness ==
  \E x \in 1..Len(results) :
    /\ C28_StrictAccept(results[x])
    /\ C28_RankOfAccepted(results[x].mention) > 1

-----------------------------------------------------------------------------
\* number of strict terms of each mention; none when generateSearchTerms throws
C29_StrictCounts ==
  [ m \in UNION { Range(b) : b \in LongBatches } |->
      IF m.nameIsString THEN Len(generateSearchTerms(m)) ELSE 0 ]

C29_StrictCount(m) == C29_StrictCounts[m]

\* the calls of the strict pass of mention i
C29_StrictCalls(i) ==
  { n \in 1..Len(calls) :
      calls[n].mention = i /\ PositionOf(n) <= C29_StrictCount(medications[i]) }

C29_CallsBounded ==
  \A i \in 1..Len(medications) : CallCount(i) <= C29_StrictCount(medications[i]) + 3

C29_NoTermTwice ==
  \A i \in 1..Len(medications) :
    \A a, b \in C29_StrictCalls(i) : a # b => calls[a].term # calls[b].term

\* mention i has exactly one terminal outcome: a result, or one closing entry
C29_OneOutcome(i) ==
  Len(ResultsOf(i))
    + Len(SelectSeq(EntriesOf(i), LAMBDA e : IsFailedEntry(e) \/ IsProcessingEntry(e))) = 1

C29_Safe ==
  /\ C29_CallsBounded
  /\ C29_NoTermTwice
  /\ pc = "done" => \A i \in 1..Len(medications) : C29_OneOutcome(i)

\* steps that are left for one term: the call, its return, the delay
C29_OfTerm(left) ==
  CASE pc \in {"strict", "relaxed"} -> 3 * left + 3
    [] pc \in {"strictAwait", "relaxedAwait"} -> 3 * left + 2
    [] OTHER -> 3 * left + 1

\* number of relaxed terms of each mention
C29_RelaxedCounts ==
  [ m \in UNION { Range(b) : b \in LongBatches } |->
      IF m.nameIsString THEN Len(relaxedSearchTerms(m)) ELSE 0 ]

\* steps that are left within the current mention, Conclude included
C29_Within ==
  CASE pc = "conclude" -> 1
    [] pc \in {"relaxed", "relaxedAwait", "relaxedDelay"} ->
         1 + C29_OfTerm(C29_RelaxedCounts[CurrentMedication] - termIdx)
    [] OTHER -> 1 + 3 * C29_RelaxedCounts[CurrentMedication]
                  + C29_OfTerm(Len(searchTerms) - termIdx)

\* more than the steps any mention of the batches can take
C29_Width ==
  LET counts == { C29_StrictCounts[m] : m \in DOMAIN C29_StrictCounts } IN
  3 * (CHOOSE c \in counts : \A d \in counts : d <= c) + 3 * 3 + 2

\* a bound on the number of steps that are left before the batch is done
C29_Rank ==
  CASE pc = "done" -> 0
    [] pc = "loop" -> (Len(medications) - medIdx + 1) * C29_Width + 1
    [] OTHER -> (Len(medications) - medIdx) * C29_Width + 1 + C29_Within

\* C29: searchMultipleMedications terminates: every step brings the batch
\* nearer to its end, it makes at most (number of strict terms + 3) search
\* calls per mention, repeats no term within the strict pass of a mention, and
\* has returned after the last mention with exactly one terminal outcome per
\* mention
C29_Terminates ==
  /\ [] (C29_Safe /\ C29_Rank >= 0)
  /\ [][C29_Rank' < C29_Rank]_vars

\* the run has returned after a mention used every strict term and three
\* relaxed terms
C29_Witness ==
  /\ pc = "done"
  /\ \E i \in 1..Len(medications) :
       /\ CallCount(i) = C29_StrictCount(medications[i]) + 3
       /\ C29_StrictCount(medications[i]) > 1

-----------------------------------------------------------------------------
\* the name has one component: no slash, no " and ", no " & "
C30_SingleComponent(name) ==
  /\ ~includes(name, <<"/">>)
  /\ ~includes(name, <<" ","a","n","d"," ">>)
  /\ ~includes(name, <<" ","&"," ">>)

\* mention m has a single-component name that contains a keyword of the filter
C30_NameHasKeyword(m) ==
  /\ m.nameIsString
  /\ C30_SingleComponent(m.name)
  /\ ContainsAny(m.name, C14_Keywords)

\* C30: the veterinary filter matches substrings, so a mention whose
\* single-component name contains one of the keywords (as "vet" in
\* levetiracetam or "pet" in petrolatum) is never resolved, whatever the
\* endpoint returns
C30_KeywordNameUnresolved ==
  \A i \in 1..Len(medications) :
    C30_NameHasKeyword(medications[i]) => ResultsOf(i) = <<>>

\* the batch is done, a query for a mention with such a name was answered with
\* a record whose title contains the name, and another mention was resolved
C30_Witness ==
  /\ pc = "done"
  /\ results # <<>>
  /\ \E n \in 1..Len(calls) :
       /\ C30_NameHasKeyword(medications[calls[n].mention])
       /\ ReplyTo(n).kind = "json"
       /\ IsArray(ReplyTo(n).data)
       /\ \E k \in 1..Len(ReplyTo(n).data.items) :
            includes(toLowerCase(ReplyTo(n).data.items[k].title),
                     toLowerCase(medications[calls[n].mention].name))
=============================================================================
